---- MODULE Spec2Model ----
(***************************************************************************)
(* dioxus-bevy: the instance lifecycle manager of src/src/lib.rs.          *)
(*                                                                         *)
(* State: the registry (BevyInstanceManagerInner.instances), the paint     *)
(* adapters the host holds (ManagedBevyPaintSource), the renderers the     *)
(* deferred factories built (BevyAppRenderer with its crossbeam channel),  *)
(* the poison flag of the registry Mutex and the build's overflow-check    *)
(* setting.  History variables record what the operations did.             *)
(***************************************************************************)
EXTENDS Integers, Sequences, FiniteSets, TLC

\* ---------------------------------------------------------------- bounds
\* get_or_create, release and send_message calls in one behaviour
MaxCalls == 6
\* the same, in the behaviours that size textures
MaxTextureCalls == 2
\* mounts, unmounts and sends of the UI tree in one behaviour
MaxMountCalls == 5
\* get_or_create, release and send_message calls of the threads in one
\* behaviour
MaxThreadCalls == 2
\* textures one renderer registers with the host in one behaviour
MaxTextures == 2
\* get_or_create, release and send_message calls in the behaviours whose
\* renderers count the calls they get
MaxProbeCalls == 3
\* the same, in the behaviours in which an app may drop its receiver
MaxChannelCalls == 5
\* get_or_create calls and sends in the behaviours that follow the drain
\* update by update
MaxDrainCalls == 4
\* get_or_create calls and send_signal_update calls in the behaviours that
\* carry typed updates
MaxSignalCalls == 3
\* get_or_create, release and send_message calls in the behaviours that use
\* slots nobody holds any more
MaxDormantCalls == 4
\* resume calls, and suspend calls, one counting renderer gets in one
\* behaviour
MaxForwards == 2

\* ------------------------------------------------------------- constants
\* Width of usize (ref_count: usize).  The arithmetic below is done modulo
\* 2^UsizeBits; 16 is the narrowest usize a Rust target has.
UsizeBits == 16
USIZE_MODULUS == 2 ^ UsizeBits
USIZE_MAX == USIZE_MODULUS - 1

\* BevyInstanceId values handed in by the UI layer.
Ids == {"A", "B"}

\* Option::None for the integer-valued options (renderer, paint_source_id,
\* factory, texture handle); Some(n) is n >= 1.
None == 0

\* Box<dyn Any + Send> payload kinds: a SignalUpdate or any other type.
PayloadKinds == {"SignalUpdate", "Other"}

\* the identity of the component that is mounted and unmounted while the
\* host goes on painting
DormantId == "A"

\* the types that implement IntoSignalUpdate
SignalTypes == {"bool", "f32", "f64", "i32", "u32", "String"}

\* keys the UI passes to send_signal_update
Keys == {"speed", "color_index"}

\* the extract_signals! invocations of the app's signal systems, in the order
\* the frame runs them: each has arms of one variant, one arm per key
Systems ==
    <<[variant |-> "F32", keys |-> {"speed"}],
      [variant |-> "I32", keys |-> {"color_index"}]>>

\* values of each type the UI sends, written as the literal
ValuesOf(type) ==
    CASE type = "bool" -> {"true"}
      [] type = "f32" -> {"2.5"}
      [] type = "f64" -> {"2.5"}
      [] type = "i32" -> {"7"}
      [] type = "u32" -> {"7"}
      [] type = "String" -> {"hello"}

\* BevyComponent instances the UI tree may mount
Components == {"c1", "c2", "c3"}

\* two threads that mount, unmount and send, and the host's paint thread
UiThreads == {"ui1", "ui2"}
PaintThreads == {"paint"}
Threads == UiThreads \cup PaintThreads

\* a thread that is in no call and has made none
Idle == [stage |-> "idle", op |-> "none"]

\* the holder of a Mutex that is free
Nobody == "nobody"

\* width and height arguments the host passes to render
Widths == {0, 1, 2}
Heights == {0, 1}

\* the one size a host passes to apps that have no camera: init_texture
\* returns before it looks at the size's value
OneSize == {<<1, 1>>}

\* how many Camera entities the setup closure of a factory spawns (2: several)
CameraCounts == {0, 1, 2}

VARIABLES
    instances,        \* BevyInstanceManagerInner.instances : id -> BevyInstance
    sources,          \* paint sources registered with the host: handle -> adapter
    renderers,        \* every renderer a factory ever built: rid -> renderer
    poisoned,         \* the registry Mutex is poisoned
    overflow_checks,  \* build profile: integer overflow panics (TRUE) or wraps
    torn_down,        \* the registry has been dropped
    creates,          \* history: get_or_create calls that took the lock, per id
    releases,         \* history: release calls that took the lock, per id
    over_released,    \* history: ids released while their count was 0
    resumed_ids,      \* history: ids whose adapter completed a resume
    factory_calls,    \* history: factory invocations, per id of the adapter
    sent,             \* history: number of send_message calls so far
    dropped_msgs,     \* history: [serial, id] of the messages send_message dropped
    returned,         \* history: the handles get_or_create returned, per id
    painted,          \* what the last render of a paint adapter returned
    cfg,              \* what the environment of this behaviour does (fixed)
    mounted,          \* what the hook of each mounted BevyComponent holds
    lock,             \* the thread that holds the registry Mutex, or Nobody
    pc                \* the call each thread is in, and how far it got

vars == <<instances, sources, renderers, poisoned, overflow_checks, torn_down,
          creates, releases, over_released, resumed_ids, factory_calls,
          sent, dropped_msgs, returned, painted, cfg, mounted, lock, pc>>

\* the state of the UI components and of the threads
callers == <<mounted, lock, pc>>

hist == <<creates, releases, over_released, resumed_ids, factory_calls,
          sent, dropped_msgs>>

\* ------------------------------------------------------------ data types
\* struct BevyInstance
\* mutant: a new slot is inserted without counting its first user
BevyInstance_uncounted(renderer, paint_source_id, ref_count) ==
    [renderer |-> renderer, paint_source_id |-> paint_source_id,
     ref_count |-> 0]

\* mutant: a new slot is inserted before its adapter's handle is stored
BevyInstance_unregistered(renderer, paint_source_id, ref_count) ==
    [renderer |-> renderer, paint_source_id |-> None,
     ref_count |-> ref_count]

BevyInstance(renderer, paint_source_id, ref_count) ==
    [renderer |-> renderer, paint_source_id |-> paint_source_id,
     ref_count |-> ref_count]

\* struct ManagedBevyPaintSource (manager is the one shared registry)
ManagedBevyPaintSource(instance_id, factory) ==
    [instance_id |-> instance_id, factory |-> factory]

\* BevyAppRenderer::new: a fresh app with an empty unbounded channel.
\* slot/factory say who built it; received is what the app's drains have
\* popped, applied the arm actions they ran (which system, for which update).
\* counting says that the renderer's resume and suspend count their calls;
\* receiver_gone that the app no longer has its SignalReceiver, send_errors
\* how many Err results of sender.send handle_message has discarded.
\* cameras is what setup(&mut app) spawned; host_textures/registered are the
\* textures this renderer has registered through CustomPaintCtx, and
\* peak_textures the most it ever had registered at one time.
BevyAppRenderer_new(slot, factory, cameras) ==
    [slot |-> slot, factory |-> factory, channel |-> <<>>, received |-> <<>>,
     applied |-> <<>>, handled |-> <<>>, resume_calls |-> FALSE,
     shutdown_calls |-> 0, dropped |-> FALSE,
     counting |-> FALSE, resume_count |-> 0, suspend_count |-> 0,
     receiver_gone |-> FALSE, send_errors |-> 0,
     cameras |-> cameras, texture_handle |-> None,
     manual_texture_view_handle |-> None, last_texture_size |-> <<0, 0>>,
     view_inserted |-> FALSE, host_textures |-> {}, registered |-> 0,
     peak_textures |-> 0]

\* ------------------------------------------------------- pure operators
\* factory(device_handle): the Box<dyn BevyRenderer> the deferred factory
\* builds, a BevyAppRenderer or an implementor that counts its calls
FactoryResult(slot, factory, cameras, counting) ==
    [BevyAppRenderer_new(slot, factory, cameras) EXCEPT !.counting = counting]

\* instance.ref_count += 1 on usize (wrapping result; the overflow panic is
\* decided by the caller from the build profile)
RefInc(n) == (n + 1) % USIZE_MODULUS

\* mutant: the decrement is applied twice
RefDec_twice(n) == (n - 2) % USIZE_MODULUS

\* instance.ref_count -= 1 on usize
RefDec(n) == (n - 1) % USIZE_MODULUS

\* mutant: the receiver hands out the newest update first
RECURSIVE Drain_lifo(_, _)
Drain_lifo(channel, received) ==
    IF channel = <<>> THEN received
    ELSE Drain_lifo(SubSeq(channel, 1, Len(channel) - 1),
                    Append(received, channel[Len(channel)]))

\* while let Ok(update) = receiver.try_recv() { match update {..} }
\* pops the head of the channel until try_recv finds it empty
RECURSIVE Drain(_, _)
Drain(channel, received) ==
    IF channel = <<>> THEN received
    ELSE Drain(Tail(channel), Append(received, Head(channel)))

\* match update { SignalUpdate::V(key, val) if key == $key => action, .. ,
\* _ => {} }: an arm of the invocation takes the update when its variant and
\* key are the arm's; a payload modelled without content matches no arm
Matches(arms, msg) ==
    /\ "update" \in DOMAIN msg
    /\ msg.update.variant = arms.variant
    /\ msg.update.key \in arms.keys

\* the actions the arms of invocation k run while the loop pops the channel
RECURSIVE Apply(_, _, _)
Apply(channel, applied, k) ==
    IF channel = <<>> THEN applied
    ELSE Apply(Tail(channel),
               IF Matches(Systems[k], Head(channel))
               THEN Append(applied,
                           [system |-> k, serial |-> Head(channel).serial])
               ELSE applied,
               k)

\* mutant: an update that matches no arm stays on the channel
ExtractSignals_keeps_unmatched(r, k) ==
    [r EXCEPT
       !.received = Drain(SelectSeq(r.channel,
                                    LAMBDA m : Matches(Systems[k], m)),
                          r.received),
       !.applied = Apply(r.channel, r.applied, k),
       !.channel = SelectSeq(r.channel, LAMBDA m : ~Matches(Systems[k], m))]

\* one expansion of extract_signals!($receiver, { arms of Systems[k] }): the
\* loop pops every queued update, runs the action of the arm that matches
\* and drops the update at `_ => {}` otherwise
ExtractSignals(r, k) ==
    [r EXCEPT !.received = Drain(r.channel, r.received),
              !.applied = Apply(r.channel, r.applied, k),
              !.channel = <<>>]

\* App::update: the frame's systems run, the signal systems drain the channel
\* one after the other
AppUpdate(r) == ExtractSignals(ExtractSignals(r, 1), 2)

\* enum SignalUpdate: a variant with its (key, value)
SignalUpdate(variant, key, value) ==
    [variant |-> variant, key |-> key, value |-> value]

\* mutant: the impl for f64 was copied from the impl for f32
IntoSignalUpdate_f64_as_f32(type, key, value) ==
    CASE type = "bool" -> SignalUpdate("Bool", key, value)
      [] type = "f32" -> SignalUpdate("F32", key, value)
      [] type = "f64" -> SignalUpdate("F32", key, value)
      [] type = "i32" -> SignalUpdate("I32", key, value)
      [] type = "u32" -> SignalUpdate("U32", key, value)
      [] type = "String" -> SignalUpdate("String", key, value)

\* <T as IntoSignalUpdate>::into_signal_update(self, key), one impl per type
IntoSignalUpdate(type, key, value) ==
    CASE type = "bool" -> SignalUpdate("Bool", key, value)
      [] type = "f32" -> SignalUpdate("F32", key, value)
      [] type = "f64" -> SignalUpdate("F64", key, value)
      [] type = "i32" -> SignalUpdate("I32", key, value)
      [] type = "u32" -> SignalUpdate("U32", key, value)
      [] type = "String" -> SignalUpdate("String", key, value)

\* mutant: every payload is put on the channel, whatever its type
HandleMessage_any(r, msg) ==
    [r EXCEPT !.handled = Append(@, msg), !.channel = Append(@, msg)]

\* BevyAppRenderer::handle_message: forward a SignalUpdate to the channel;
\* `let _ = sender.send(..)` drops the Err of a channel whose receiver is gone
HandleMessage(r, msg) ==
    IF msg.kind # "SignalUpdate"
    THEN [r EXCEPT !.handled = Append(@, msg)]
    ELSE IF r.receiver_gone
    THEN [r EXCEPT !.handled = Append(@, msg), !.send_errors = @ + 1]
    ELSE [r EXCEPT !.handled = Append(@, msg), !.channel = Append(@, msg)]

\* BevyRenderer::resume (default body) on the renderer
RendererResume(r) ==
    [r EXCEPT !.resume_calls = TRUE,
              !.resume_count = IF r.counting THEN @ + 1 ELSE @]

\* BevyRenderer::suspend (default body) on the renderer
RendererSuspend(r) ==
    [r EXCEPT !.suspend_count = IF r.counting THEN @ + 1 ELSE @]

\* mutant: a zero width or height is not refused
InitTexture_sizes_zero(r, width, height) ==
    IF r.texture_handle # None /\ r.last_texture_size = <<width, height>>
    THEN r
    ELSE IF r.cameras = 0 THEN r
    ELSE LET cleared == [r EXCEPT
                           !.host_textures = @ \ {r.texture_handle},
                           !.texture_handle = None,
                           !.manual_texture_view_handle = None,
                           !.view_inserted = TRUE]
             handle == r.registered + 1
         IN IF r.cameras = 1
            THEN [cleared EXCEPT
                    !.last_texture_size = <<width, height>>,
                    !.manual_texture_view_handle = 1,
                    !.texture_handle = handle,
                    !.host_textures = @ \cup {handle},
                    !.registered = handle,
                    !.peak_textures =
                       IF Cardinality(cleared.host_textures) + 1 > @
                       THEN Cardinality(cleared.host_textures) + 1 ELSE @]
            ELSE cleared

\* mutant: the new texture is registered while the old one still is, and
\* the old one is unregistered afterwards
InitTexture_registers_first(r, width, height) ==
    IF width = 0 \/ height = 0 THEN r
    ELSE IF r.texture_handle # None /\ r.last_texture_size = <<width, height>>
    THEN r
    ELSE IF r.cameras = 0 THEN r
    ELSE LET handle == r.registered + 1
             both == r.host_textures \cup {handle}
         IN IF r.cameras = 1
            THEN [r EXCEPT
                    !.view_inserted = TRUE,
                    !.last_texture_size = <<width, height>>,
                    !.manual_texture_view_handle = 1,
                    !.texture_handle = handle,
                    !.host_textures = both \ {r.texture_handle},
                    !.registered = handle,
                    !.peak_textures = IF Cardinality(both) > @
                                      THEN Cardinality(both) ELSE @]
            ELSE [r EXCEPT
                    !.host_textures = @ \ {r.texture_handle},
                    !.texture_handle = None,
                    !.manual_texture_view_handle = None,
                    !.view_inserted = TRUE]

\* BevyAppRenderer::init_texture(ctx, width, height)
InitTexture(r, width, height) ==
    IF width = 0 \/ height = 0 THEN r
    ELSE IF r.texture_handle # None /\ r.last_texture_size = <<width, height>>
    THEN r
    ELSE IF r.cameras = 0 THEN r
    ELSE \* the ManualTextureViews resource is the one new() inserted
         LET cleared == [r EXCEPT
                           !.host_textures = @ \ {r.texture_handle},
                           !.texture_handle = None,
                           !.manual_texture_view_handle = None,
                           !.view_inserted = TRUE]
             handle == r.registered + 1
         IN IF r.cameras = 1
            THEN \* query.single_mut(world) is Ok
                 [cleared EXCEPT
                    !.last_texture_size = <<width, height>>,
                    !.manual_texture_view_handle = 1,
                    !.texture_handle = handle,
                    !.host_textures = @ \cup {handle},
                    !.registered = handle,
                    !.peak_textures =
                       IF Cardinality(cleared.host_textures) + 1 > @
                       THEN Cardinality(cleared.host_textures) + 1 ELSE @]
            ELSE cleared

\* BevyAppRenderer::render: size the texture, run one frame
RendererRender(r, width, height) == AppUpdate(InitTexture(r, width, height))

\* what BevyAppRenderer::render returns: self.texture_handle.clone()
RendererRenderResult(r) == r.texture_handle

\* BevyAppRenderer::shutdown: write AppExit and run one last frame
RendererShutdown(r) == [AppUpdate(r) EXCEPT !.shutdown_calls = @ + 1]

\* mutant: no Drop impl, the renderer is dropped without shutdown
DropInstance_no_shutdown(inst, rs) ==
    IF inst.renderer # None
    THEN [rs EXCEPT ![inst.renderer].dropped = TRUE]
    ELSE rs

\* impl Drop for BevyInstance, then the drop of its fields
DropInstance(inst, rs) ==
    IF inst.renderer # None
    THEN [rs EXCEPT ![inst.renderer] =
              [RendererShutdown(@) EXCEPT !.dropped = TRUE]]
    ELSE rs

\* drop of the HashMap: every instance in it is dropped
RECURSIVE DropAll(_, _, _)
DropAll(ids, insts, rs) ==
    IF ids = {} THEN rs
    ELSE LET id == CHOOSE x \in ids : TRUE
         IN DropAll(ids \ {id}, insts, DropInstance(insts[id], rs))

\* ------------------------------------------------------------------ Init
\* the environment: the call budget, the camera counts the factories' setup
\* closures spawn, the sizes the host renders at, whether a factory may
\* panic, and whether the renderers the factories build count their calls
Environment(max_calls, setups, sizes, factory_panics, counting) ==
    [max_calls |-> max_calls, setups |-> setups, sizes |-> sizes,
     factory_panics |-> factory_panics, counting |-> counting]

InitWith(environment) ==
    /\ cfg = environment
    /\ mounted = [c \in {} |-> None]
    /\ lock = Nobody
    /\ pc = [t \in Threads |-> Idle]
    /\ returned = [i \in Ids |-> {}]
    /\ painted = None
    /\ instances = [i \in {} |-> None]
    /\ sources = <<>>
    /\ renderers = <<>>
    /\ poisoned = FALSE
    /\ overflow_checks \in BOOLEAN
    /\ torn_down = FALSE
    /\ creates = [i \in Ids |-> 0]
    /\ releases = [i \in Ids |-> 0]
    /\ over_released = {}
    /\ resumed_ids = {}
    /\ factory_calls = [i \in Ids |-> 0]
    /\ sent = 0
    /\ dropped_msgs = {}

\* BevyInstanceManager::new; the factories build apps without a camera and
\* do not panic
Init == InitWith(Environment(MaxCalls, {0}, OneSize, FALSE, FALSE))

\* self.inner.lock().unwrap() on a poisoned Mutex: the call panics before it
\* touches anything
PanicOnPoisoned ==
    /\ poisoned
    /\ UNCHANGED <<instances, sources, renderers, poisoned, overflow_checks,
                   torn_down>>
    /\ UNCHANGED hist

\* A panic while the MutexGuard is alive poisons the Mutex.
PanicHoldingLock ==
    /\ poisoned' = TRUE
    /\ UNCHANGED <<instances, sources, renderers, overflow_checks, torn_down>>
    /\ UNCHANGED hist

\* the sum of the values of f: one pair <<x, k>> for every unit of f[x]
TotalOf(f) ==
    Cardinality(UNION {{<<x, k>> : k \in 1..f[x]} : x \in DOMAIN f})

\* calls made so far that took the registry lock
Calls == TotalOf(creates) + TotalOf(releases) + sent

\* --------------------------------------------------------------- actions
\* mutant: the renderer is built eagerly at mount time
GetOrCreate_eager(id) ==
    /\ ~torn_down
    /\ UNCHANGED <<painted, cfg>>
    /\ Calls < cfg.max_calls
    /\ ~poisoned
    /\ creates' = [creates EXCEPT ![id] = @ + 1]
    /\ IF id \in DOMAIN instances
       THEN /\ instances' = [instances EXCEPT ![id].ref_count = RefInc(@)]
            /\ returned' = [returned EXCEPT
                               ![id] = @ \cup {instances[id].paint_source_id}]
            /\ UNCHANGED <<sources, renderers, factory_calls>>
       ELSE LET factory == TotalOf(creates) + 1
                paint_source_id == Len(sources) + 1
                rid == Len(renderers) + 1
            IN /\ sources' = Append(sources, ManagedBevyPaintSource(id, None))
               /\ renderers' = Append(renderers,
                                      BevyAppRenderer_new(id, factory, 0))
               /\ returned' = [returned EXCEPT
                                  ![id] = @ \cup {paint_source_id}]
               /\ instances' = (id :> BevyInstance(rid, paint_source_id, 1))
                                 @@ instances
               /\ factory_calls' = [factory_calls EXCEPT ![id] = @ + 1]
    /\ UNCHANGED <<poisoned, overflow_checks, torn_down, releases,
                   over_released, resumed_ids, sent, dropped_msgs>>

\* mutant: a mount that finds the slot registers another paint source with the
\* factory it was given and returns the new handle
GetOrCreate_reregisters(id) ==
    /\ ~torn_down
    /\ UNCHANGED <<painted, cfg>>
    /\ Calls < cfg.max_calls
    /\ ~poisoned
    /\ creates' = [creates EXCEPT ![id] = @ + 1]
    /\ sources' = Append(sources,
                         ManagedBevyPaintSource(id, TotalOf(creates) + 1))
    /\ returned' = [returned EXCEPT ![id] = @ \cup {Len(sources) + 1}]
    /\ instances' =
          IF id \in DOMAIN instances
          THEN [instances EXCEPT ![id].ref_count = RefInc(@)]
          ELSE (id :> BevyInstance(None, Len(sources) + 1, 1)) @@ instances
    /\ UNCHANGED <<renderers, poisoned, overflow_checks, torn_down, releases,
                   over_released, resumed_ids, factory_calls, sent,
                   dropped_msgs>>

\* BevyInstanceManager::get_or_create(instance_id, dioxus_renderer, factory).
\* The factory supplied by this call is tagged with the call's ordinal.
GetOrCreate(id) ==
    /\ ~torn_down
    /\ UNCHANGED <<painted, cfg>>
    /\ Calls < cfg.max_calls
    /\ \/ PanicOnPoisoned /\ UNCHANGED returned
       \/ /\ ~poisoned
          /\ id \in DOMAIN instances
          /\ LET inst == instances[id] IN
             IF inst.ref_count = USIZE_MAX /\ overflow_checks
             THEN \* attempt to add with overflow
                  PanicHoldingLock /\ UNCHANGED returned
             ELSE IF inst.paint_source_id = None
             THEN \* expect("Paint source not registered"), after the += 1
                  /\ instances' = [instances EXCEPT
                                     ![id].ref_count = RefInc(@)]
                  /\ poisoned' = TRUE
                  /\ UNCHANGED <<sources, renderers, overflow_checks,
                                 torn_down, returned>>
                  /\ UNCHANGED hist
             ELSE /\ instances' = [instances EXCEPT
                                     ![id].ref_count = RefInc(@)]
                  /\ creates' = [creates EXCEPT ![id] = @ + 1]
                  \* return instance.paint_source_id
                  /\ returned' = [returned EXCEPT
                                     ![id] = @ \cup {inst.paint_source_id}]
                  /\ UNCHANGED <<sources, renderers, poisoned,
                                 overflow_checks, torn_down, releases,
                                 over_released, resumed_ids, factory_calls,
                                 sent, dropped_msgs>>
       \/ /\ ~poisoned
          /\ id \notin DOMAIN instances
          /\ LET factory == TotalOf(creates) + 1
                 paint_source == ManagedBevyPaintSource(id, factory)
                 \* register_custom_paint_source returns the new handle
                 paint_source_id == Len(sources) + 1
             IN /\ sources' = Append(sources, paint_source)
                /\ instances' = (id :> BevyInstance(None, paint_source_id, 1))
                                  @@ instances
                \* return paint_source_id
                /\ returned' = [returned EXCEPT
                                   ![id] = @ \cup {paint_source_id}]
          /\ creates' = [creates EXCEPT ![id] = @ + 1]
          /\ UNCHANGED <<renderers, poisoned, overflow_checks, torn_down,
                         releases, over_released, resumed_ids, factory_calls,
                         sent, dropped_msgs>>

\* mutant: the renderer is shut down and dropped when the count reaches zero,
\* the slot stays
Release_drops_renderer(id) ==
    /\ ~torn_down
    /\ UNCHANGED <<returned, painted, cfg>>
    /\ Calls < cfg.max_calls
    /\ ~poisoned
    /\ id \in DOMAIN instances
    /\ instances[id].ref_count > 0
    /\ releases' = [releases EXCEPT ![id] = @ + 1]
    /\ IF RefDec(instances[id].ref_count) = 0
       THEN /\ instances' = [instances EXCEPT ![id].ref_count = 0,
                                              ![id].renderer = None]
            /\ renderers' = DropInstance(instances[id], renderers)
       ELSE /\ instances' = [instances EXCEPT ![id].ref_count = RefDec(@)]
            /\ UNCHANGED renderers
    /\ UNCHANGED <<sources, poisoned, overflow_checks, torn_down, creates,
                   over_released, resumed_ids, factory_calls, sent,
                   dropped_msgs>>

\* mutant: the instance is destroyed when the count reaches zero, as the doc
\* comment of release says
Release_destroys(id) ==
    /\ ~torn_down
    /\ UNCHANGED <<returned, painted, cfg>>
    /\ Calls < cfg.max_calls
    /\ ~poisoned
    /\ id \in DOMAIN instances
    /\ instances[id].ref_count > 0
    /\ releases' = [releases EXCEPT ![id] = @ + 1]
    /\ IF RefDec(instances[id].ref_count) = 0
       THEN /\ instances' = [i \in DOMAIN instances \ {id} |-> instances[i]]
            /\ renderers' = DropInstance(instances[id], renderers)
       ELSE /\ instances' = [instances EXCEPT ![id].ref_count = RefDec(@)]
            /\ UNCHANGED renderers
    /\ UNCHANGED <<sources, poisoned, overflow_checks, torn_down, creates,
                   over_released, resumed_ids, factory_calls, sent,
                   dropped_msgs>>

\* BevyInstanceManager::release(instance_id)
Release(id) ==
    /\ ~torn_down
    /\ UNCHANGED <<returned, painted, cfg>>
    /\ Calls < cfg.max_calls
    /\ \/ PanicOnPoisoned
       \/ /\ ~poisoned
          /\ id \in DOMAIN instances
          /\ IF instances[id].ref_count = 0 /\ overflow_checks
             THEN \* attempt to subtract with overflow
                  /\ poisoned' = TRUE
                  /\ over_released' = over_released \cup {id}
                  /\ UNCHANGED <<instances, sources, renderers,
                                 overflow_checks, torn_down, creates,
                                 releases, resumed_ids, factory_calls, sent,
                                 dropped_msgs>>
             ELSE /\ instances' = [instances EXCEPT
                                     ![id].ref_count = RefDec(@)]
                  /\ releases' = [releases EXCEPT ![id] = @ + 1]
                  /\ over_released' =
                        IF instances[id].ref_count = 0
                        THEN over_released \cup {id} ELSE over_released
                  /\ UNCHANGED <<sources, renderers, poisoned,
                                 overflow_checks, torn_down, creates,
                                 resumed_ids, factory_calls, sent,
                                 dropped_msgs>>
       \/ /\ ~poisoned
          /\ id \notin DOMAIN instances
          /\ releases' = [releases EXCEPT ![id] = @ + 1]
          /\ over_released' = over_released \cup {id}
          /\ UNCHANGED <<instances, sources, renderers, poisoned,
                         overflow_checks, torn_down, creates, resumed_ids,
                         factory_calls, sent, dropped_msgs>>

\* mutant: the payload is handed to every constructed renderer
SendMessage_broadcast(id, kind) ==
    /\ ~torn_down
    /\ UNCHANGED <<returned, painted, cfg>>
    /\ Calls < cfg.max_calls
    /\ ~poisoned
    /\ sent' = sent + 1
    /\ LET msg == [serial |-> sent + 1, kind |-> kind] IN
       renderers' = [rid \in DOMAIN renderers |->
                       HandleMessage(renderers[rid], msg)]
    /\ UNCHANGED <<instances, sources, poisoned, overflow_checks, torn_down,
                   creates, releases, over_released, resumed_ids,
                   factory_calls, dropped_msgs>>

\* mutant: a missing slot or renderer is unwrapped instead of skipped
SendMessage_unwrap(id, kind) ==
    /\ ~torn_down
    /\ UNCHANGED <<returned, painted, cfg>>
    /\ Calls < cfg.max_calls
    /\ ~poisoned
    /\ sent' = sent + 1
    /\ LET msg == [serial |-> sent + 1, kind |-> kind] IN
       IF id \in DOMAIN instances /\ instances[id].renderer # None
       THEN /\ renderers' = [renderers EXCEPT
                  ![instances[id].renderer] = HandleMessage(@, msg)]
            /\ UNCHANGED <<dropped_msgs, poisoned>>
       ELSE /\ dropped_msgs' = dropped_msgs \cup
                                {[serial |-> msg.serial, id |-> id]}
            /\ poisoned' = TRUE
            /\ UNCHANGED renderers
    /\ UNCHANGED <<instances, sources, overflow_checks, torn_down, creates,
                   releases, over_released, resumed_ids, factory_calls>>

\* mutant: the channel is created with bounded(1), and a send waits while the
\* channel is full
SendMessage_bounded(id, kind) ==
    /\ ~torn_down
    /\ UNCHANGED <<returned, painted, cfg>>
    /\ Calls < cfg.max_calls
    /\ ~poisoned
    /\ sent' = sent + 1
    /\ LET msg == [serial |-> sent + 1, kind |-> kind] IN
       IF id \in DOMAIN instances /\ instances[id].renderer # None
       THEN /\ kind = "SignalUpdate"
                 => Len(renderers[instances[id].renderer].channel) < 1
            /\ renderers' = [renderers EXCEPT
                  ![instances[id].renderer] = HandleMessage(@, msg)]
            /\ UNCHANGED dropped_msgs
       ELSE /\ dropped_msgs' = dropped_msgs \cup
                                {[serial |-> msg.serial, id |-> id]}
            /\ UNCHANGED renderers
    /\ UNCHANGED <<instances, sources, poisoned, overflow_checks, torn_down,
                   creates, releases, over_released, resumed_ids,
                   factory_calls>>

\* mutant: a message for a slot nobody holds is dropped
SendBoxed_skips_dormant(id, payload) ==
    /\ ~torn_down
    /\ UNCHANGED <<returned, painted, cfg>>
    /\ Calls < cfg.max_calls
    /\ \/ PanicOnPoisoned
       \/ /\ ~poisoned
          /\ sent' = sent + 1
          /\ LET msg == [serial |-> sent + 1] @@ payload IN
             IF /\ id \in DOMAIN instances
                /\ instances[id].renderer # None
                /\ instances[id].ref_count > 0
             THEN /\ renderers' = [renderers EXCEPT
                        ![instances[id].renderer] = HandleMessage(@, msg)]
                  /\ UNCHANGED dropped_msgs
             ELSE /\ dropped_msgs' = dropped_msgs \cup
                                      {[serial |-> msg.serial, id |-> id]}
                  /\ UNCHANGED renderers
          /\ UNCHANGED <<instances, sources, poisoned, overflow_checks,
                         torn_down, creates, releases, over_released,
                         resumed_ids, factory_calls>>

\* BevyInstanceManager::send_message(instance_id, msg) with the boxed value
\* payload: a record whose kind is the type in the Box, with the update when
\* that is a SignalUpdate.  serial numbers the calls.
SendBoxed(id, payload) ==
    /\ ~torn_down
    /\ UNCHANGED <<returned, painted, cfg>>
    /\ Calls < cfg.max_calls
    /\ \/ PanicOnPoisoned
       \/ /\ ~poisoned
          /\ sent' = sent + 1
          /\ LET msg == [serial |-> sent + 1] @@ payload IN
             IF id \in DOMAIN instances /\ instances[id].renderer # None
             THEN /\ renderers' = [renderers EXCEPT
                        ![instances[id].renderer] = HandleMessage(@, msg)]
                  /\ UNCHANGED dropped_msgs
             ELSE /\ dropped_msgs' = dropped_msgs \cup
                                      {[serial |-> msg.serial, id |-> id]}
                  /\ UNCHANGED renderers
          /\ UNCHANGED <<instances, sources, poisoned, overflow_checks,
                         torn_down, creates, releases, over_released,
                         resumed_ids, factory_calls>>

\* send_message with a payload of which only the type matters; send_signal
\* and BevyMessageSender::send box the payload and call it.
SendMessage(id, kind) == SendBoxed(id, [kind |-> kind])

\* BevyMessageSender::send_signal_update(key, value) of the sender made for
\* id: value.into_signal_update(key.to_string()), then send_signal, which
\* boxes the update for send_message.  arg records what the caller passed.
SendSignalUpdate(id, type, key, value) ==
    SendBoxed(id, [kind |-> "SignalUpdate",
                   update |-> IntoSignalUpdate(type, key, value),
                   arg |-> <<type, key, value>>])

\* mutant: resume calls the factory without taking it and without looking at
\* the renderer the slot already has
Resume_rebuilds(h) ==
    /\ ~torn_down
    /\ UNCHANGED <<returned, painted, cfg>>
    /\ h \in DOMAIN sources
    /\ ~poisoned
    /\ LET id == sources[h].instance_id
           rid == Len(renderers) + 1
       IN /\ id \in DOMAIN instances
          /\ factory_calls[id] < 3
          /\ resumed_ids' = resumed_ids \cup {id}
          /\ renderers' = Append(renderers, RendererResume(
                              BevyAppRenderer_new(id, sources[h].factory, 0)))
          /\ instances' = [instances EXCEPT ![id].renderer = rid]
          /\ factory_calls' = [factory_calls EXCEPT ![id] = @ + 1]
    /\ UNCHANGED <<sources, poisoned, overflow_checks, torn_down, creates,
                   releases, over_released, sent, dropped_msgs>>

\* mutant: resume builds the renderer and returns; the renderer's own resume
\* is only called by a later resume that finds the renderer
Resume_constructs_only(h) ==
    /\ ~torn_down
    /\ UNCHANGED <<returned, painted, cfg>>
    /\ h \in DOMAIN sources
    /\ ~poisoned
    /\ LET src == sources[h]
           id == src.instance_id
       IN /\ id \in DOMAIN instances
          /\ resumed_ids' = resumed_ids \cup {id}
          /\ IF instances[id].renderer = None /\ src.factory # None
             THEN /\ renderers' = Append(renderers,
                                       BevyAppRenderer_new(id, src.factory, 0))
                  /\ instances' = [instances EXCEPT
                                     ![id].renderer = Len(renderers) + 1]
                  /\ sources' = [sources EXCEPT ![h].factory = None]
                  /\ factory_calls' = [factory_calls EXCEPT ![id] = @ + 1]
             ELSE /\ renderers' =
                        IF instances[id].renderer # None
                        THEN [renderers EXCEPT
                                ![instances[id].renderer] = RendererResume(@)]
                        ELSE renderers
                  /\ UNCHANGED <<instances, sources, factory_calls>>
    /\ UNCHANGED <<poisoned, overflow_checks, torn_down, creates, releases,
                   over_released, sent, dropped_msgs>>

\* mutant: the factory is called through a reference and stays in the
\* adapter
Resume_keeps_factory(h) ==
    /\ ~torn_down
    /\ UNCHANGED <<returned, painted, cfg>>
    /\ h \in DOMAIN sources
    /\ ~poisoned
    /\ LET src == sources[h]
           id == src.instance_id
       IN /\ id \in DOMAIN instances
          /\ resumed_ids' = resumed_ids \cup {id}
          /\ IF instances[id].renderer = None /\ src.factory # None
             THEN /\ renderers' =
                        Append(renderers,
                               RendererResume(FactoryResult(id, src.factory, 0,
                                                            cfg.counting)))
                  /\ instances' = [instances EXCEPT
                                     ![id].renderer = Len(renderers) + 1]
                  /\ factory_calls' = [factory_calls EXCEPT ![id] = @ + 1]
                  /\ UNCHANGED sources
             ELSE /\ renderers' =
                        IF instances[id].renderer # None
                        THEN [renderers EXCEPT
                                ![instances[id].renderer] = RendererResume(@)]
                        ELSE renderers
                  /\ UNCHANGED <<instances, sources, factory_calls>>
    /\ UNCHANGED <<poisoned, overflow_checks, torn_down, creates, releases,
                   over_released, sent, dropped_msgs>>

\* <ManagedBevyPaintSource as CustomPaintSource>::resume(device_handle),
\* called by the host on the paint source registered under handle h
Resume(h) ==
    /\ ~torn_down
    /\ UNCHANGED <<returned, painted, cfg>>
    /\ h \in DOMAIN sources
    /\ LET src == sources[h]
           id == src.instance_id
       IN \/ PanicOnPoisoned
          \/ \* factory(device_handle) panics: the factory has been taken, the
             \* MutexGuard is alive, nothing catches the unwind
             /\ ~poisoned
             /\ cfg.factory_panics
             /\ id \in DOMAIN instances
             /\ instances[id].renderer = None
             /\ src.factory # None
             /\ sources' = [sources EXCEPT ![h].factory = None]
             /\ factory_calls' = [factory_calls EXCEPT ![id] = @ + 1]
             /\ poisoned' = TRUE
             /\ UNCHANGED <<instances, renderers, overflow_checks, torn_down,
                            creates, releases, over_released, resumed_ids,
                            sent, dropped_msgs>>
          \/ /\ ~poisoned
             /\ resumed_ids' = resumed_ids \cup {id}
             /\ \E cameras \in cfg.setups :
                IF id \in DOMAIN instances
                THEN LET construct == instances[id].renderer = None
                                        /\ src.factory # None
                         \* factory(device_handle) builds a new renderer
                         rid == Len(renderers) + 1
                         built == IF construct
                                  THEN Append(renderers,
                                         FactoryResult(id, src.factory,
                                                       cameras, cfg.counting))
                                  ELSE renderers
                         renderer == IF construct THEN rid
                                     ELSE instances[id].renderer
                     IN /\ renderer # None
                             => built[renderer].resume_count < MaxForwards
                        /\ sources' = IF construct
                                      THEN [sources EXCEPT ![h].factory = None]
                                      ELSE sources
                        /\ instances' = [instances EXCEPT
                                           ![id].renderer = renderer]
                        /\ factory_calls' =
                              IF construct
                              THEN [factory_calls EXCEPT ![id] = @ + 1]
                              ELSE factory_calls
                        /\ renderers' =
                              IF renderer # None
                              THEN [built EXCEPT
                                      ![renderer] = RendererResume(@)]
                              ELSE built
                ELSE UNCHANGED <<instances, sources, renderers, factory_calls>>
             /\ UNCHANGED <<poisoned, overflow_checks, torn_down, creates,
                            releases, over_released, sent, dropped_msgs>>

\* mutant: suspend frees the renderer of the hidden surface
Suspend_frees(h) ==
    /\ ~torn_down
    /\ UNCHANGED <<returned, painted, cfg>>
    /\ h \in DOMAIN sources
    /\ ~poisoned
    /\ LET id == sources[h].instance_id
       IN /\ id \in DOMAIN instances
          /\ instances' = [instances EXCEPT ![id].renderer = None]
    /\ UNCHANGED <<sources, renderers, poisoned, overflow_checks, torn_down>>
    /\ UNCHANGED hist

\* mutant: a suspend counts as the unmount of one user of the slot
Suspend_releases(h) ==
    /\ ~torn_down
    /\ UNCHANGED <<returned, painted, cfg>>
    /\ h \in DOMAIN sources
    /\ ~poisoned
    /\ LET id == sources[h].instance_id
       IN /\ id \in DOMAIN instances
          /\ instances[id].ref_count > 0
          /\ instances' = [instances EXCEPT ![id].ref_count = RefDec(@)]
          /\ renderers' =
                IF instances[id].renderer # None
                THEN [renderers EXCEPT
                        ![instances[id].renderer] = RendererSuspend(@)]
                ELSE renderers
    /\ UNCHANGED <<sources, poisoned, overflow_checks, torn_down>>
    /\ UNCHANGED hist

\* <ManagedBevyPaintSource as CustomPaintSource>::suspend()
Suspend(h) ==
    /\ ~torn_down
    /\ UNCHANGED <<returned, painted, cfg>>
    /\ h \in DOMAIN sources
    /\ LET id == sources[h].instance_id
       IN \/ PanicOnPoisoned
          \/ /\ ~poisoned
             /\ IF id \in DOMAIN instances /\ instances[id].renderer # None
                THEN /\ renderers[instances[id].renderer].suspend_count
                          < MaxForwards
                     /\ renderers' = [renderers EXCEPT
                           ![instances[id].renderer] = RendererSuspend(@)]
                ELSE UNCHANGED renderers
             /\ UNCHANGED <<instances, sources, poisoned, overflow_checks,
                            torn_down>>
             /\ UNCHANGED hist

\* <ManagedBevyPaintSource as CustomPaintSource>::render(ctx, width, height,
\* scale), called by the host on the paint source registered under handle h;
\* painted is what the call returns
Render(h, width, height) ==
    /\ ~torn_down
    /\ UNCHANGED <<returned, cfg>>
    /\ h \in DOMAIN sources
    /\ LET id == sources[h].instance_id
       IN \/ PanicOnPoisoned /\ UNCHANGED painted
          \/ /\ ~poisoned
             /\ IF id \in DOMAIN instances /\ instances[id].renderer # None
                THEN LET rid == instances[id].renderer
                         after == RendererRender(renderers[rid], width, height)
                     IN /\ after.registered <= MaxTextures
                        /\ renderers' = [renderers EXCEPT ![rid] = after]
                        /\ painted' = RendererRenderResult(after)
                ELSE /\ UNCHANGED renderers
                     /\ painted' = None
             /\ UNCHANGED <<instances, sources, poisoned, overflow_checks,
                            torn_down>>
             /\ UNCHANGED hist

\* The last Arc<Mutex<BevyInstanceManagerInner>> goes away (the manager and
\* the host's paint sources are dropped): the HashMap drops every instance.
Teardown ==
    /\ ~torn_down
    /\ UNCHANGED <<returned, painted, cfg>>
    /\ torn_down' = TRUE
    /\ renderers' = DropAll(DOMAIN instances, instances, renderers)
    /\ instances' = [i \in {} |-> None]
    /\ sources' = <<>>
    /\ UNCHANGED <<poisoned, overflow_checks>>
    /\ UNCHANGED hist

\* A system of the app removes the SignalReceiver resource from the world:
\* the Receiver is dropped, and with it what is queued on the channel.
ReceiverDropped(rid) ==
    /\ ~torn_down
    /\ rid \in DOMAIN renderers
    /\ ~renderers[rid].receiver_gone
    /\ renderers' = [renderers EXCEPT ![rid].receiver_gone = TRUE,
                                      ![rid].channel = <<>>]
    /\ UNCHANGED <<instances, sources, poisoned, overflow_checks, torn_down,
                   returned, painted, cfg>>
    /\ UNCHANGED hist

\* mutant: the cleanup of the hook releases nothing
Unmount_forgets(c) ==
    /\ c \in DOMAIN mounted
    /\ ~torn_down
    /\ Calls < cfg.max_calls
    /\ mounted' = [d \in DOMAIN mounted \ {c} |-> mounted[d]]
    /\ UNCHANGED <<instances, sources, renderers, poisoned, overflow_checks,
                   torn_down, returned, painted, cfg>>
    /\ UNCHANGED hist

\* BevyComponent, first render: use_hook_with_cleanup runs its initialiser,
\* which calls get_or_create and keeps (instance_id, mgr, id) in the hook.
\* A get_or_create that panics leaves no hook.
Mount(c, id) ==
    /\ c \notin DOMAIN mounted
    /\ GetOrCreate(id)
    /\ mounted' =
          IF creates'[id] # creates[id]
          THEN (c :> [instance_id |-> id,
                      paint_source_id |-> instances'[id].paint_source_id])
                 @@ mounted
          ELSE mounted

\* BevyComponent, scope dropped: the cleanup of the hook calls release with
\* the instance_id the hook holds.
Unmount(c) ==
    /\ c \in DOMAIN mounted
    /\ Release(mounted[c].instance_id)
    /\ mounted' = [d \in DOMAIN mounted \ {c} |-> mounted[d]]

Next ==
    \/ \E id \in Ids : GetOrCreate(id) /\ UNCHANGED callers
    \/ \E id \in Ids : Release(id) /\ UNCHANGED callers
    \/ \E id \in Ids, kind \in PayloadKinds :
          SendMessage(id, kind) /\ UNCHANGED callers
    \/ \E h \in DOMAIN sources : Resume(h) /\ UNCHANGED callers
    \/ \E h \in DOMAIN sources : Suspend(h) /\ UNCHANGED callers
    \/ \E h \in DOMAIN sources, size \in cfg.sizes :
          Render(h, size[1], size[2]) /\ UNCHANGED callers
    \/ Teardown /\ UNCHANGED callers

Spec == Init /\ [][Next]_vars

\* The factories build apps with no, one or several cameras, so that render
\* sizes and registers textures.
TextureInit == InitWith(Environment(MaxTextureCalls, CameraCounts,
                                    Widths \X Heights, FALSE, FALSE))

SpecTexture == TextureInit /\ [][Next]_vars

\* The registry is only used through BevyComponent and BevyMessageSender of
\* one UI tree that shares one manager, and by the host's paint calls.
NextMount ==
    \/ \E c \in Components, id \in Ids :
          Mount(c, id) /\ UNCHANGED <<lock, pc>>
    \/ \E c \in Components : Unmount(c) /\ UNCHANGED <<lock, pc>>
    \/ \E id \in Ids, kind \in PayloadKinds :
          SendMessage(id, kind) /\ UNCHANGED callers
    \/ \E h \in DOMAIN sources : Resume(h) /\ UNCHANGED callers
    \/ \E h \in DOMAIN sources : Suspend(h) /\ UNCHANGED callers
    \/ \E h \in DOMAIN sources, size \in cfg.sizes :
          Render(h, size[1], size[2]) /\ UNCHANGED callers
    \/ Teardown /\ UNCHANGED callers

MountInit == InitWith(Environment(MaxMountCalls, {0}, OneSize, FALSE, FALSE))

SpecMount == MountInit /\ [][NextMount]_vars

\* ------------------------------------------------- the calls, step by step
\* A call of a thread: lock(), the statements of the body, the drop of the
\* MutexGuard at the return.  n and handle are locals of the call;
\* began_absent records whether the identity had a slot when the call began.
Call(op, id, h, kind, size, factory) ==
    [stage |-> "lock", op |-> op, id |-> id, h |-> h, kind |-> kind,
     size |-> size, factory |-> factory, n |-> None, handle |-> None,
     began_absent |-> id \notin DOMAIN instances]

\* what a thread keeps of a get_or_create that began without slot and
\* returned
Returned(call) ==
    [stage |-> "returned", op |-> call.op, id |-> call.id,
     handle |-> call.handle, began_absent |-> call.began_absent]

\* a thread that unwound out of its call
Panicked(call) == [stage |-> "panicked", op |-> call.op]

\* the stages in which a call is between lock().unwrap() and its return
BodyStages == {"locked", "add", "register", "insert", "sub", "ret"}

InCall(t) == pc[t].stage \in BodyStages \cup {"lock"}

\* calls of the UI threads that were begun and have not returned
InFlight == Cardinality({t \in UiThreads : InCall(t)})

\* dropping the MutexGuard
Unlocked(t) == IF lock = t THEN Nobody ELSE lock

\* a UI thread calls get_or_create, release or send_message / send_signal
BeginUi(t, op, id, kind) ==
    /\ t \in UiThreads
    /\ ~torn_down
    /\ ~InCall(t) /\ pc[t].stage # "panicked"
    /\ Calls + InFlight < cfg.max_calls
    /\ pc' = [pc EXCEPT ![t] =
                Call(op, id, None,
                     IF op = "send_message" THEN kind ELSE "none", <<0, 0>>,
                     IF op = "get_or_create"
                     THEN TotalOf(creates) + InFlight + 1 ELSE None)]
    /\ UNCHANGED <<instances, sources, renderers, poisoned, overflow_checks,
                   torn_down, returned, painted, cfg, mounted, lock>>
    /\ UNCHANGED hist

\* mutant: the paint callbacks work on the registry without locking it
BeginPaint_lockless(t, op, h, size) ==
    /\ t \in PaintThreads
    /\ ~torn_down
    /\ ~InCall(t) /\ pc[t].stage # "panicked"
    /\ h \in DOMAIN sources
    /\ pc' = [pc EXCEPT ![t] =
                [Call(op, sources[h].instance_id, h, "none",
                      IF op = "render" THEN size ELSE <<0, 0>>, None)
                   EXCEPT !.stage = "locked"]]
    /\ UNCHANGED <<instances, sources, renderers, poisoned, overflow_checks,
                   torn_down, returned, painted, cfg, mounted, lock>>
    /\ UNCHANGED hist

\* the host calls resume, suspend or render on a registered paint source
BeginPaint(t, op, h, size) ==
    /\ t \in PaintThreads
    /\ ~torn_down
    /\ ~InCall(t) /\ pc[t].stage # "panicked"
    /\ h \in DOMAIN sources
    /\ pc' = [pc EXCEPT ![t] =
                Call(op, sources[h].instance_id, h, "none",
                     IF op = "render" THEN size ELSE <<0, 0>>, None)]
    /\ UNCHANGED <<instances, sources, renderers, poisoned, overflow_checks,
                   torn_down, returned, painted, cfg, mounted, lock>>
    /\ UNCHANGED hist

\* mutant: lock() does not wait for the thread that holds the Mutex
Acquire_without_exclusion(t) ==
    /\ pc[t].stage = "lock"
    /\ ~poisoned
    /\ lock' = t
    /\ pc' = [pc EXCEPT ![t].stage = "locked"]
    /\ UNCHANGED <<instances, sources, renderers, poisoned, overflow_checks,
                   torn_down, returned, painted, cfg, mounted>>
    /\ UNCHANGED hist

\* self.inner.lock().unwrap() / self.manager.lock().unwrap(): wait until the
\* Mutex is free; a poisoned Mutex makes the unwrap panic
Acquire(t) ==
    /\ pc[t].stage = "lock"
    /\ lock = Nobody
    /\ IF poisoned
       THEN /\ pc' = [pc EXCEPT ![t] = Panicked(pc[t])]
            /\ UNCHANGED lock
       ELSE /\ lock' = t
            /\ pc' = [pc EXCEPT ![t].stage = "locked"]
    /\ UNCHANGED <<instances, sources, renderers, poisoned, overflow_checks,
                   torn_down, returned, painted, cfg, mounted>>
    /\ UNCHANGED hist

\* a panic between lock().unwrap() and the return: the guard is dropped
\* while unwinding and the Mutex is poisoned
PanicInBody(t) ==
    /\ poisoned' = TRUE
    /\ lock' = Unlocked(t)
    /\ pc' = [pc EXCEPT ![t] = Panicked(pc[t])]

\* get_or_create: inner.instances.get_mut(&instance_id), and the read of
\* `instance.ref_count += 1`
GetOrCreateLookup(t) ==
    /\ pc[t].stage = "locked" /\ pc[t].op = "get_or_create"
    /\ pc' = [pc EXCEPT ![t] =
                IF pc[t].id \in DOMAIN instances
                THEN [@ EXCEPT !.stage = "add",
                               !.n = instances[pc[t].id].ref_count]
                ELSE [@ EXCEPT !.stage = "register"]]
    /\ UNCHANGED <<instances, sources, renderers, poisoned, overflow_checks,
                   torn_down, returned, painted, cfg, mounted, lock>>
    /\ UNCHANGED hist

\* get_or_create: the write of `instance.ref_count += 1`, then
\* instance.paint_source_id.expect(..)
GetOrCreateAdd(t) ==
    /\ pc[t].stage = "add"
    /\ LET id == pc[t].id IN
       IF pc[t].n = USIZE_MAX /\ overflow_checks
       THEN /\ PanicInBody(t)
            /\ UNCHANGED instances
       ELSE /\ instances' = [instances EXCEPT
                               ![id].ref_count = RefInc(pc[t].n)]
            /\ IF instances[id].paint_source_id = None
               THEN PanicInBody(t)
               ELSE /\ pc' = [pc EXCEPT
                                ![t].stage = "ret",
                                ![t].handle = instances[id].paint_source_id]
                    /\ UNCHANGED <<poisoned, lock>>
    /\ UNCHANGED <<sources, renderers, overflow_checks, torn_down, returned,
                   painted, cfg, mounted>>
    /\ UNCHANGED hist

\* mutant: the guard is dropped once the adapter is registered, and the slot
\* is inserted without it
GetOrCreateRegister_unlocks(t) ==
    /\ pc[t].stage = "register"
    /\ sources' = Append(sources,
                         ManagedBevyPaintSource(pc[t].id, pc[t].factory))
    /\ pc' = [pc EXCEPT ![t].stage = "insert",
                        ![t].handle = Len(sources) + 1]
    /\ lock' = Nobody
    /\ UNCHANGED <<instances, renderers, poisoned, overflow_checks,
                   torn_down, returned, painted, cfg, mounted>>
    /\ UNCHANGED hist

\* get_or_create: build the paint source and
\* dioxus_renderer.register_custom_paint_source(Box::new(paint_source))
GetOrCreateRegister(t) ==
    /\ pc[t].stage = "register"
    /\ sources' = Append(sources,
                         ManagedBevyPaintSource(pc[t].id, pc[t].factory))
    /\ pc' = [pc EXCEPT ![t].stage = "insert",
                        ![t].handle = Len(sources) + 1]
    /\ UNCHANGED <<instances, renderers, poisoned, overflow_checks,
                   torn_down, returned, painted, cfg, mounted, lock>>
    /\ UNCHANGED hist

\* get_or_create: inner.instances.insert(instance_id, BevyInstance {..});
\* HashMap::insert replaces an entry that is there
GetOrCreateInsert(t) ==
    /\ pc[t].stage = "insert"
    /\ instances' = (pc[t].id :> BevyInstance(None, pc[t].handle, 1))
                      @@ instances
    /\ pc' = [pc EXCEPT ![t].stage = "ret"]
    /\ UNCHANGED <<sources, renderers, poisoned, overflow_checks,
                   torn_down, returned, painted, cfg, mounted, lock>>
    /\ UNCHANGED hist

\* release: inner.instances.get_mut(instance_id), and the read of
\* `instance.ref_count -= 1`
ReleaseLookup(t) ==
    /\ pc[t].stage = "locked" /\ pc[t].op = "release"
    /\ IF pc[t].id \in DOMAIN instances
       THEN /\ pc' = [pc EXCEPT ![t].stage = "sub",
                               ![t].n = instances[pc[t].id].ref_count]
            /\ UNCHANGED over_released
       ELSE /\ pc' = [pc EXCEPT ![t].stage = "ret"]
            /\ over_released' = over_released \cup {pc[t].id}
    /\ UNCHANGED <<instances, sources, renderers, poisoned, overflow_checks,
                   torn_down, returned, painted, cfg, mounted, lock, creates,
                   releases, resumed_ids, factory_calls, sent, dropped_msgs>>

\* release: the write of `instance.ref_count -= 1`
ReleaseSub(t) ==
    /\ pc[t].stage = "sub"
    /\ over_released' = IF pc[t].n = 0
                        THEN over_released \cup {pc[t].id}
                        ELSE over_released
    /\ IF pc[t].n = 0 /\ overflow_checks
       THEN /\ PanicInBody(t)
            /\ UNCHANGED instances
       ELSE /\ instances' = [instances EXCEPT
                               ![pc[t].id].ref_count = RefDec(pc[t].n)]
            /\ pc' = [pc EXCEPT ![t].stage = "ret"]
            /\ UNCHANGED <<poisoned, lock>>
    /\ UNCHANGED <<sources, renderers, overflow_checks, torn_down, returned,
                   painted, cfg, mounted, creates, releases, resumed_ids,
                   factory_calls, sent, dropped_msgs>>

\* mutant: send_signal locks the registry itself before it calls
\* send_message, which locks it again
SendBody_relocks(t) ==
    /\ pc[t].stage = "locked" /\ pc[t].op = "send_message"
    /\ pc' = [pc EXCEPT ![t].stage = "lock"]
    /\ UNCHANGED <<instances, sources, renderers, poisoned, overflow_checks,
                   torn_down, returned, painted, cfg, mounted, lock>>
    /\ UNCHANGED hist

\* send_message, and the paint source's resume, suspend and render, between
\* lock().unwrap() and the return
SendBody(t) ==
    /\ pc[t].stage = "locked" /\ pc[t].op = "send_message"
    /\ ~poisoned
    /\ SendMessage(pc[t].id, pc[t].kind)
    /\ pc' = [pc EXCEPT ![t].stage = "ret"]
    /\ UNCHANGED <<mounted, lock>>

ResumeBody(t) ==
    /\ pc[t].stage = "locked" /\ pc[t].op = "resume"
    /\ ~poisoned
    /\ Resume(pc[t].h)
    /\ pc' = [pc EXCEPT ![t].stage = "ret"]
    /\ UNCHANGED <<mounted, lock>>

SuspendBody(t) ==
    /\ pc[t].stage = "locked" /\ pc[t].op = "suspend"
    /\ ~poisoned
    /\ Suspend(pc[t].h)
    /\ pc' = [pc EXCEPT ![t].stage = "ret"]
    /\ UNCHANGED <<mounted, lock>>

RenderBody(t) ==
    /\ pc[t].stage = "locked" /\ pc[t].op = "render"
    /\ ~poisoned
    /\ Render(pc[t].h, pc[t].size[1], pc[t].size[2])
    /\ pc' = [pc EXCEPT ![t].stage = "ret"]
    /\ UNCHANGED <<mounted, lock>>

\* the call returns: the MutexGuard is dropped, get_or_create hands its
\* handle to the caller
Return(t) ==
    /\ pc[t].stage = "ret"
    /\ lock' = Unlocked(t)
    /\ pc' = [pc EXCEPT ![t] =
                IF pc[t].op = "get_or_create" /\ pc[t].began_absent
                THEN Returned(pc[t]) ELSE Idle]
    /\ creates' = IF pc[t].op = "get_or_create"
                  THEN [creates EXCEPT ![pc[t].id] = @ + 1] ELSE creates
    /\ returned' = IF pc[t].op = "get_or_create"
                   THEN [returned EXCEPT ![pc[t].id] = @ \cup {pc[t].handle}]
                   ELSE returned
    /\ releases' = IF pc[t].op = "release"
                   THEN [releases EXCEPT ![pc[t].id] = @ + 1] ELSE releases
    /\ UNCHANGED <<instances, sources, renderers, poisoned, overflow_checks,
                   torn_down, painted, cfg, mounted, over_released,
                   resumed_ids, factory_calls, sent, dropped_msgs>>

\* the manager and the paint sources are dropped when no call is running
TeardownThreads ==
    /\ \A t \in Threads : ~InCall(t)
    /\ Teardown
    /\ UNCHANGED callers

UiOps == {"get_or_create", "release", "send_message"}
PaintOps == {"resume", "suspend", "render"}

\* the threads send signal updates
ThreadKinds == {"SignalUpdate"}

NextThreads ==
    \/ \E t \in UiThreads, op \in UiOps, id \in Ids, kind \in ThreadKinds :
          BeginUi(t, op, id, kind)
    \/ \E t \in PaintThreads, op \in PaintOps, h \in DOMAIN sources,
           size \in cfg.sizes : BeginPaint(t, op, h, size)
    \/ \E t \in Threads : Acquire(t)
    \/ \E t \in Threads : GetOrCreateLookup(t)
    \/ \E t \in Threads : GetOrCreateAdd(t)
    \/ \E t \in Threads : GetOrCreateRegister(t)
    \/ \E t \in Threads : GetOrCreateInsert(t)
    \/ \E t \in Threads : ReleaseLookup(t)
    \/ \E t \in Threads : ReleaseSub(t)
    \/ \E t \in Threads : SendBody(t)
    \/ \E t \in Threads : ResumeBody(t)
    \/ \E t \in Threads : SuspendBody(t)
    \/ \E t \in Threads : RenderBody(t)
    \/ \E t \in Threads : Return(t)
    \/ TeardownThreads

ThreadsInit == InitWith(Environment(MaxThreadCalls, {0}, OneSize, FALSE, FALSE))

SpecThreads == ThreadsInit /\ [][NextThreads]_vars

\* one UI thread and the host's paint thread
LockThreads == {"ui1"} \cup PaintThreads

\* a step of the call of t between lock().unwrap() and the return
Body(t) ==
    \/ GetOrCreateLookup(t) \/ GetOrCreateAdd(t) \/ GetOrCreateRegister(t)
    \/ GetOrCreateInsert(t) \/ ReleaseLookup(t) \/ ReleaseSub(t)
    \/ SendBody(t) \/ ResumeBody(t) \/ SuspendBody(t) \/ RenderBody(t)
    \/ Return(t)

NextLock ==
    \/ \E op \in UiOps, id \in Ids, kind \in ThreadKinds :
          BeginUi("ui1", op, id, kind)
    \/ \E t \in PaintThreads, op \in PaintOps, h \in DOMAIN sources,
           size \in cfg.sizes : BeginPaint(t, op, h, size)
    \/ \E t \in LockThreads : Acquire(t)
    \/ \E t \in LockThreads : GetOrCreateLookup(t)
    \/ \E t \in LockThreads : GetOrCreateAdd(t)
    \/ \E t \in LockThreads : GetOrCreateRegister(t)
    \/ \E t \in LockThreads : GetOrCreateInsert(t)
    \/ \E t \in LockThreads : ReleaseLookup(t)
    \/ \E t \in LockThreads : ReleaseSub(t)
    \/ \E t \in LockThreads : SendBody(t)
    \/ \E t \in LockThreads : ResumeBody(t)
    \/ \E t \in LockThreads : SuspendBody(t)
    \/ \E t \in LockThreads : RenderBody(t)
    \/ \E t \in LockThreads : Return(t)
    \/ TeardownThreads

SpecLock == ThreadsInit /\ [][NextLock]_vars

\* A running thread goes on running, and a thread that waits in lock() gets
\* the Mutex when it is free again and again.
FairSpecLock ==
    /\ SpecLock
    /\ \A t \in LockThreads : WF_vars(Body(t)) /\ SF_vars(Acquire(t))

\* The factory of a slot may panic when resume calls it.
PanicInit == InitWith(Environment(MaxCalls, {0}, OneSize, TRUE, FALSE))

SpecPanic == PanicInit /\ [][Next]_vars

\* The apps the factories build may drop their SignalReceiver.
NextChannel ==
    \/ \E id \in Ids : GetOrCreate(id) /\ UNCHANGED callers
    \/ \E id \in Ids : Release(id) /\ UNCHANGED callers
    \/ \E id \in Ids, kind \in PayloadKinds :
          SendMessage(id, kind) /\ UNCHANGED callers
    \/ \E h \in DOMAIN sources : Resume(h) /\ UNCHANGED callers
    \/ \E h \in DOMAIN sources : Suspend(h) /\ UNCHANGED callers
    \/ \E h \in DOMAIN sources, size \in cfg.sizes :
          Render(h, size[1], size[2]) /\ UNCHANGED callers
    \/ \E rid \in DOMAIN renderers : ReceiverDropped(rid) /\ UNCHANGED callers
    \/ Teardown /\ UNCHANGED callers

ChannelInit == InitWith(Environment(MaxChannelCalls, {0}, OneSize, FALSE,
                                   FALSE))

SpecChannel == ChannelInit /\ [][NextChannel]_vars

\* The UI sends typed signal updates.
NextSignal ==
    \/ \E id \in Ids : GetOrCreate(id) /\ UNCHANGED callers
    \/ \E id \in Ids, type \in SignalTypes, key \in Keys :
          \E value \in ValuesOf(type) :
             SendSignalUpdate(id, type, key, value) /\ UNCHANGED callers
    \/ \E h \in DOMAIN sources : Resume(h) /\ UNCHANGED callers
    \/ \E h \in DOMAIN sources, size \in cfg.sizes :
          Render(h, size[1], size[2]) /\ UNCHANGED callers
    \/ Teardown /\ UNCHANGED callers

SignalInit == InitWith(Environment(MaxSignalCalls, {0}, OneSize, FALSE,
                                  FALSE))

SpecSignal == SignalInit /\ [][NextSignal]_vars

\* ------------------------------------------------ the drain, step by step
\* what the paint thread keeps of a frame whose signal system is draining
\* the channel of renderer rid: the receiver's and the channel's content when
\* the drain began, the updates sent since, the updates taken so far
Draining(rid, r) ==
    [stage |-> "drain", op |-> "render", rid |-> rid, before |-> r.received,
     start |-> r.channel, late |-> <<>>, pops |-> 0]

\* the host calls render on a paint source whose slot has a renderer: render
\* takes the registry lock, init_texture returns (the app has no camera),
\* app.update() runs the system that expands extract_signals!
RenderBegin(t, h) ==
    /\ t \in PaintThreads
    /\ ~torn_down /\ ~poisoned
    /\ lock = Nobody /\ pc[t] = Idle
    /\ h \in DOMAIN sources
    /\ sources[h].instance_id \in DOMAIN instances
    /\ LET rid == instances[sources[h].instance_id].renderer IN
       /\ rid # None
       /\ ~renderers[rid].receiver_gone
       /\ pc' = [pc EXCEPT ![t] = Draining(rid, renderers[rid])]
    /\ lock' = t
    /\ UNCHANGED <<instances, sources, renderers, poisoned, overflow_checks,
                   torn_down, returned, painted, cfg, mounted>>
    /\ UNCHANGED hist

\* mutant: `if let Ok(update) = try_recv()`: one update per frame
TryRecv_one_per_frame(t) ==
    /\ pc[t].stage = "drain"
    /\ LET rid == pc[t].rid
           r == renderers[rid]
       IN /\ renderers' =
                IF r.channel # <<>>
                THEN [renderers EXCEPT
                        ![rid].received = Append(@, Head(r.channel)),
                        ![rid].channel = Tail(@)]
                ELSE renderers
          /\ pc' = [pc EXCEPT ![t] = Idle]
          /\ lock' = Unlocked(t)
          /\ painted' = RendererRenderResult(r)
    /\ UNCHANGED <<instances, sources, poisoned, overflow_checks, torn_down,
                   returned, cfg, mounted>>
    /\ UNCHANGED hist

\* one turn of `while let Ok(update) = $receiver.receiver.try_recv()`:
\* Ok(update) takes the head of the channel and matches it; Err(Empty) ends
\* the loop, the frame ends, render returns self.texture_handle.clone()
TryRecv(t) ==
    /\ pc[t].stage = "drain"
    /\ LET rid == pc[t].rid
           r == renderers[rid]
       IN IF r.channel # <<>>
          THEN /\ renderers' = [renderers EXCEPT
                     ![rid].received = Append(@, Head(r.channel)),
                     ![rid].channel = Tail(@)]
               /\ pc' = [pc EXCEPT ![t].pops = @ + 1]
               /\ UNCHANGED <<lock, painted>>
          ELSE /\ pc' = [pc EXCEPT ![t] = Idle]
               /\ lock' = Unlocked(t)
               /\ painted' = RendererRenderResult(r)
               /\ UNCHANGED renderers
    /\ UNCHANGED <<instances, sources, poisoned, overflow_checks, torn_down,
                   returned, cfg, mounted>>
    /\ UNCHANGED hist

\* A clone of the renderer's pub signal_sender sends an update from a thread
\* that takes no registry lock.
DirectSend(rid) ==
    /\ ~torn_down
    /\ rid \in DOMAIN renderers
    /\ ~renderers[rid].receiver_gone
    /\ Calls < cfg.max_calls
    /\ sent' = sent + 1
    /\ LET msg == [serial |-> sent + 1, kind |-> "SignalUpdate"] IN
       /\ renderers' = [renderers EXCEPT ![rid].channel = Append(@, msg)]
       /\ pc' = [t \in Threads |->
                   IF pc[t].stage = "drain" /\ pc[t].rid = rid
                   THEN [pc[t] EXCEPT !.late = Append(@, msg)]
                   ELSE pc[t]]
    /\ UNCHANGED <<instances, sources, poisoned, overflow_checks, torn_down,
                   returned, painted, cfg, mounted, lock, creates, releases,
                   over_released, resumed_ids, factory_calls, dropped_msgs>>

NextDrain ==
    \/ \E id \in Ids : lock = Nobody /\ GetOrCreate(id) /\ UNCHANGED callers
    \/ \E id \in Ids, kind \in ThreadKinds :
          lock = Nobody /\ SendMessage(id, kind) /\ UNCHANGED callers
    \/ \E h \in DOMAIN sources :
          lock = Nobody /\ Resume(h) /\ UNCHANGED callers
    \/ \E t \in PaintThreads, h \in DOMAIN sources : RenderBegin(t, h)
    \/ \E t \in PaintThreads : TryRecv(t)
    \/ \E rid \in DOMAIN renderers : DirectSend(rid)
    \/ lock = Nobody /\ Teardown /\ UNCHANGED callers

DrainInit == InitWith(Environment(MaxDrainCalls, {0}, OneSize, FALSE, FALSE))

SpecDrain == DrainInit /\ [][NextDrain]_vars

\* the scheduler of the app runs the system to its end
FairSpecDrain ==
    SpecDrain /\ WF_vars(\E t \in PaintThreads : TryRecv(t))

\* The factories build renderers that count the resume and suspend calls
\* they get, and a factory may panic.
ProbeInit == InitWith(Environment(MaxProbeCalls, {0}, OneSize, TRUE, TRUE))

SpecProbe == ProbeInit /\ [][Next]_vars

\* The factories build apps with one camera whose renderers count the resume
\* and suspend calls they get; the UI may release every hold it has on a slot
\* while the host goes on painting it.
DormantInit == InitWith(Environment(MaxDormantCalls, {1}, OneSize, FALSE, TRUE))

\* the calls of a UI that uses one identity, and of the host
NextDormant ==
    \/ GetOrCreate(DormantId) /\ UNCHANGED callers
    \/ Release(DormantId) /\ UNCHANGED callers
    \/ \E kind \in PayloadKinds :
          SendMessage(DormantId, kind) /\ UNCHANGED callers
    \/ \E h \in DOMAIN sources : Resume(h) /\ UNCHANGED callers
    \/ \E h \in DOMAIN sources : Suspend(h) /\ UNCHANGED callers
    \/ \E h \in DOMAIN sources, size \in cfg.sizes :
          Render(h, size[1], size[2]) /\ UNCHANGED callers
    \/ Teardown /\ UNCHANGED callers

SpecDormant == DormantInit /\ [][NextDormant]_vars

\* ---------------------------------------------------------------- claims
\* the slot of id holds a constructed renderer
Live(id) == id \in DOMAIN instances /\ instances[id].renderer # None

\* the step is a paint-adapter resume of the adapter registered for id
ResumeOf(id) ==
    \E h \in DOMAIN sources : sources[h].instance_id = id /\ Resume(h)

\* C1: for every identity the deferred factory of its slot is invoked at most
\* once over any sequence of calls, and every invocation happens inside a
\* resume of the identity's paint adapter, after the get_or_create that
\* created the slot.
C1_FactoryAtMostOnceInResume ==
    /\ [](\A id \in Ids : factory_calls[id] <= 1)
    /\ [][\A id \in Ids :
            factory_calls'[id] # factory_calls[id]
              => /\ ResumeOf(id)
                 /\ creates[id] >= 1
                 /\ id \in DOMAIN instances
                 /\ factory_calls'[id] = factory_calls[id] + 1]_vars

\* C1 witness: a factory has run once for an identity that was mounted twice
\* and unmounted in between
C1_Witness ==
    \E id \in Ids : /\ factory_calls[id] = 1
                    /\ creates[id] >= 2
                    /\ releases[id] >= 1
                    /\ Live(id)

\* C2: a slot's renderer is present only if a resume of its adapter has
\* completed, and a get_or_create call leaves a new slot with an empty
\* renderer and invokes no factory.
C2_RendererOnlyAfterResume ==
    /\ [](\A id \in DOMAIN instances :
            instances[id].renderer # None => id \in resumed_ids)
    /\ [][\A id \in Ids :
            creates'[id] # creates[id]
              => /\ factory_calls' = factory_calls
                 /\ renderers' = renderers
                 /\ id \in DOMAIN instances'
                 /\ (id \notin DOMAIN instances
                       => instances'[id].renderer = None)]_vars

\* C2 witness: a slot that was created and not yet resumed has no renderer
\* while another slot, resumed, has one
C2_Witness ==
    \E a, b \in DOMAIN instances :
        /\ instances[a].renderer = None /\ a \notin resumed_ids
        /\ instances[b].renderer # None /\ b \in resumed_ids

\* C3: while no release has been called on an identity whose count was 0 (or
\* that had no slot), the identity's reference count is the number of
\* get_or_create calls minus the number of release calls, and is not negative.
C3_RefCountIsCreatesMinusReleases ==
    \A id \in DOMAIN instances :
        id \notin over_released
          => /\ instances[id].ref_count = creates[id] - releases[id]
             /\ instances[id].ref_count >= 0
             /\ creates[id] >= releases[id]

\* C3 witness: three creates and two releases leave a count of 1
C3_Witness ==
    \E id \in DOMAIN instances :
        /\ id \notin over_released
        /\ creates[id] = 3 /\ releases[id] = 2
        /\ instances[id].ref_count = 1

\* C4 (as claimed): a release on a slot whose count is 0 returns normally and
\* leaves the count at 0.
C4_ReleaseAtZeroIsGuarded ==
    [][\A id \in Ids :
         (~poisoned /\ id \in DOMAIN instances
            /\ instances[id].ref_count = 0 /\ Release(id))
           => (~poisoned' /\ instances'[id].ref_count = 0)]_vars

\* a call of release on id took the lock and returned
ReleaseReturned(id) == releases'[id] # releases[id]

\* a call of get_or_create on id took the lock and returned
GetOrCreateReturned(id) == creates'[id] # creates[id]

C7_ShutdownExactlyOnceAtRemoval ==
    /\ [](/\ Len(renderers) = TotalOf(factory_calls)
          /\ \A rid \in DOMAIN renderers :
               IF torn_down
               THEN /\ renderers[rid].shutdown_calls = 1
                    /\ renderers[rid].dropped
               ELSE /\ renderers[rid].shutdown_calls = 0
                    /\ ~renderers[rid].dropped
                    /\ Live(renderers[rid].slot)
                    /\ instances[renderers[rid].slot].renderer = rid)
    /\ [][\A rid \in DOMAIN renderers :
            renderers'[rid].shutdown_calls # renderers[rid].shutdown_calls
              => /\ ~renderers[rid].dropped
                 /\ renderers[rid].slot \in DOMAIN instances
                 /\ renderers[rid].slot \notin DOMAIN instances'
                 /\ renderers'[rid].shutdown_calls = 1]_vars

\* C7 witness: after teardown, a renderer whose identity went through a
\* mount/unmount cycle has had one shutdown, and a slot that never got a
\* renderer existed too
C7_Witness ==
    /\ torn_down
    /\ \E rid \in DOMAIN renderers :
          /\ renderers[rid].shutdown_calls = 1
          /\ creates[renderers[rid].slot] >= 2
          /\ releases[renderers[rid].slot] >= 1
    /\ \E id \in Ids : creates[id] >= 1 /\ factory_calls[id] = 0

\* C8: a slot whose adapter completed a resume has a renderer, and no step
\* empties the renderer of a slot that stays in the registry or puts another
\* instance in its place.
C8_RendererStaysInstalled ==
    /\ [](\A id \in DOMAIN instances :
            id \in resumed_ids => instances[id].renderer # None)
    /\ [][\A id \in DOMAIN instances :
            (instances[id].renderer # None /\ id \in DOMAIN instances')
              => instances'[id].renderer = instances[id].renderer]_vars

\* C8 witness: the renderer is in its slot after a release to zero, a
\* re-create and a message
C8_Witness ==
    \E id \in DOMAIN instances :
        /\ Live(id)
        /\ releases[id] >= 1 /\ creates[id] >= 2
        /\ renderers[instances[id].renderer].received # <<>>

\* every message a renderer was handed, queued or drained
SeenBy(r) ==
    {r.handled[i].serial : i \in DOMAIN r.handled}
      \cup {r.channel[i].serial : i \in DOMAIN r.channel}
      \cup {r.received[i].serial : i \in DOMAIN r.received}

\* what holds of C9: a send_message that gets the lock, to an identity without
\* a slot or without a constructed renderer, returns, calls no handle_message and changes nothing in
\* the registry, and the message never reaches a renderer later.
C9_MessageToUnbuiltIsDropped ==
    /\ [][\A id \in Ids, kind \in PayloadKinds :
            (~poisoned /\ ~Live(id) /\ SendMessage(id, kind))
              => /\ UNCHANGED <<instances, sources, renderers, poisoned,
                               torn_down>>
                 /\ [serial |-> sent', id |-> id] \in dropped_msgs']_vars
    /\ [](\A d \in dropped_msgs : \A rid \in DOMAIN renderers :
            d.serial \notin SeenBy(renderers[rid]))

\* C9 witness: a message was dropped for an identity whose renderer was built
\* afterwards and has handled a later message
C9_Witness ==
    \E d \in dropped_msgs :
        /\ Live(d.id)
        /\ \E i \in DOMAIN renderers[instances[d.id].renderer].handled :
              renderers[instances[d.id].renderer].handled[i].serial > d.serial

\* the signal updates among the messages handle_message was given, in order
SignalsOf(handled) == SelectSeq(handled, LAMBDA m : m.kind = "SignalUpdate")

\* C10: the signal updates sent to a constructed renderer are on its channel
\* or with its receiver exactly once each and in the order they were sent.
C10_SignalsFifoExactlyOnce ==
    \A rid \in DOMAIN renderers :
        LET r == renderers[rid] IN
        /\ r.received \o r.channel = SignalsOf(r.handled)
        /\ \A i, j \in DOMAIN r.handled :
              i < j => r.handled[i].serial < r.handled[j].serial

\* C10 witness: the receiver has drained one update and a later one is queued
C10_Witness ==
    \E rid \in DOMAIN renderers :
        /\ Len(renderers[rid].received) >= 1
        /\ Len(renderers[rid].channel) >= 1

\* the step is a call of the paint adapter registered for id
PaintCallOn(id) ==
    \E h \in DOMAIN sources :
        /\ sources[h].instance_id = id
        /\ (Resume(h) \/ Suspend(h)
              \/ \E size \in cfg.sizes : Render(h, size[1], size[2]))

\* the step is an operation addressed to id
CallOn(id) ==
    \/ GetOrCreate(id)
    \/ Release(id)
    \/ \E kind \in PayloadKinds : SendMessage(id, kind)
    \/ PaintCallOn(id)

\* the slot, the paint sources and the renderers of id are as they were
SlotUntouched(id) ==
    /\ (id \in DOMAIN instances) = (id \in DOMAIN instances')
    /\ id \in DOMAIN instances => instances'[id] = instances[id]
    /\ \A h \in DOMAIN sources' :
          sources'[h].instance_id = id
            => h \in DOMAIN sources /\ sources'[h] = sources[h]
    /\ \A rid \in DOMAIN renderers' :
          renderers'[rid].slot = id
            => rid \in DOMAIN renderers /\ renderers'[rid] = renderers[rid]

\* C11: two identities have separate slots and separate renderers, each
\* built by the factory of its own adapter, and an operation addressed to one
\* identity leaves the other's count, renderer, adapter, queue and handled
\* messages as they were.
C11_IdentitiesAreIndependent ==
    /\ [](\A a, b \in DOMAIN instances :
            /\ Live(a) => renderers[instances[a].renderer].slot = a
            /\ (a # b /\ Live(a) /\ Live(b))
                 => /\ instances[a].renderer # instances[b].renderer
                    /\ renderers[instances[a].renderer].factory
                         # renderers[instances[b].renderer].factory
            /\ a # b => instances[a].paint_source_id
                          # instances[b].paint_source_id)
    /\ [][\/ <<instances, sources, renderers>>' = <<instances, sources, renderers>>
          \/ \A a, b \in Ids :
                a # b => (SlotUntouched(b) \/ ~CallOn(a))]_vars

\* C11 witness: both identities have a renderer, one has handled a message
\* and the other none
C11_Witness ==
    \E a, b \in DOMAIN instances :
        /\ a # b /\ Live(a) /\ Live(b)
        /\ renderers[instances[a].renderer].handled # <<>>
        /\ renderers[instances[b].renderer].handled = <<>>

\* the paint sources registered for id
SourcesOf(id) == {h \in DOMAIN sources : sources[h].instance_id = id}

\* C12: a get_or_create that finds the slot of its identity and returns adds
\* exactly one to the slot's count (usize arithmetic: a count of usize::MAX,
\* which only a release at count 0 produces, wraps to 0), returns the handle
\* the first get_or_create returned, registers no paint source, leaves the
\* stored factory and the renderers alone and calls no factory; every
\* identity has at most one paint source and one handle ever returned, the
\* handle of that paint source while the registry exists.
C12_ExistingSlotIsShared ==
    /\ [](\A id \in Ids : /\ Cardinality(SourcesOf(id)) <= 1
                           /\ Cardinality(returned[id]) <= 1
                           /\ (torn_down \/ returned[id] \subseteq SourcesOf(id)))
    /\ [][\A id \in Ids :
            (id \in DOMAIN instances /\ GetOrCreateReturned(id)
               /\ GetOrCreate(id))
              => /\ instances'[id].ref_count =
                      IF instances[id].ref_count = USIZE_MAX THEN 0
                      ELSE instances[id].ref_count + 1
                 /\ instances'[id].renderer = instances[id].renderer
                 /\ instances'[id].paint_source_id
                      = instances[id].paint_source_id
                 /\ returned[id] = {instances[id].paint_source_id}
                 /\ returned'[id] = returned[id]
                 /\ sources' = sources
                 /\ renderers' = renderers
                 /\ factory_calls' = factory_calls]_vars

\* C12 witness: three mounts of one identity share one paint source, before
\* the factory ran
C12_Witness ==
    \E id \in DOMAIN instances :
        /\ creates[id] = 3 /\ instances[id].ref_count = 3
        /\ factory_calls[id] = 0
        /\ Cardinality(SourcesOf(id)) = 1
        /\ returned[id] = SourcesOf(id)

\* C13: a get_or_create whose identity has no slot inserts a slot with count
\* 1 and no renderer, registers exactly one paint source that holds the
\* identity and the factory supplied by this call, stores the handle the
\* registration returned in the slot and returns it; no factory runs.
C13_AbsentIdentityGetsSlot ==
    [][\A id \in Ids :
         (id \notin DOMAIN instances /\ GetOrCreateReturned(id)
            /\ GetOrCreate(id))
           => LET handle == Len(sources) + 1 IN
              /\ DOMAIN instances' = DOMAIN instances \cup {id}
              /\ \A other \in DOMAIN instances :
                    instances'[other] = instances[other]
              /\ instances'[id].ref_count = 1
              /\ instances'[id].renderer = None
              /\ instances'[id].paint_source_id = handle
              /\ Len(sources') = Len(sources) + 1
              /\ \A h \in DOMAIN sources : sources'[h] = sources[h]
              /\ sources'[handle].instance_id = id
              /\ sources'[handle].factory = TotalOf(creates')
              /\ returned'[id] = {handle}
              /\ renderers' = renderers
              /\ factory_calls' = factory_calls]_vars

\* C13 witness: the second identity was mounted after the first and got the
\* second paint source
C13_Witness ==
    /\ DOMAIN instances = Ids
    /\ \E id \in Ids :
          /\ creates[id] = 1 /\ instances[id].ref_count = 1
          /\ instances[id].renderer = None
          /\ instances[id].paint_source_id = 2
          /\ sources[2] = ManagedBevyPaintSource(id, 2)
          /\ returned[id] = {2}

\* self.manager.lock().unwrap() / self.inner.lock().unwrap(): the call panics
\* when an earlier panic poisoned the Mutex
LockUnwrapPanics == poisoned

\* the factory of id was taken and called, and left no renderer in the slot
FactoryFailed(id) ==
    /\ id \in DOMAIN instances
    /\ instances[id].renderer = None
    /\ factory_calls[id] > 0

\* C17 (as claimed): once the factory of a slot has panicked in resume, the
\* slot stays without renderer and the registry stays usable: no later call
\* on the registry or on a paint adapter panics on the lock.
C17_FactoryPanicIsContained ==
    \A id \in DOMAIN instances : FactoryFailed(id) => ~LockUnwrapPanics

\* C9 (as claimed): while an identity has no slot or no constructed renderer,
\* a send_message addressed to it returns normally.
C9_SendToUnbuiltReturnsNormally ==
    \A id \in Ids : (~torn_down /\ ~Live(id)) => ~LockUnwrapPanics

\* C18 (as claimed): while an adapter's slot has no constructed renderer (or
\* the slot does not exist), a render call on the adapter returns nothing
\* rather than failing.
C18_RenderOfUnbuiltNeverFails ==
    \A h \in DOMAIN sources :
        ~Live(sources[h].instance_id) => ~LockUnwrapPanics

\* what holds of C18: a render that gets the lock returns None and changes
\* nothing when the slot has no renderer, and otherwise leaves in the renderer
\* what BevyAppRenderer::render(ctx, width, height) computes and returns its
\* result; no other slot, renderer or paint source changes.
RenderForwards ==
    [][\A h \in DOMAIN sources, size \in cfg.sizes :
         (Render(h, size[1], size[2]) /\ ~LockUnwrapPanics)
           => LET id == sources[h].instance_id
                  width == size[1]
                  height == size[2] IN
              /\ instances' = instances /\ sources' = sources
              /\ IF Live(id)
                 THEN LET rid == instances[id].renderer
                          app == AppUpdate(InitTexture(renderers[rid],
                                                       width, height))
                      IN /\ renderers' = [renderers EXCEPT ![rid] = app]
                         /\ painted' = app.texture_handle
                 ELSE /\ renderers' = renderers
                      /\ painted' = None]_vars

\* C20: every renderer a slot holds has had its own resume called, so a
\* render forwarded by the adapter never reaches a renderer that was not
\* resumed; a renderer that ran a frame stays resumed.
C20_ResumeBeforeRender ==
    /\ [](\A id \in DOMAIN instances :
            Live(id) => renderers[instances[id].renderer].resume_calls)
    /\ [][\A h \in DOMAIN sources :
            LET id == sources[h].instance_id IN
            (Live(id) /\ ~renderers[instances[id].renderer].resume_calls)
              => ~\E size \in cfg.sizes :
                     Render(h, size[1], size[2])]_vars

\* C20 witness: a resumed renderer has run a frame that handled an update
C20_Witness ==
    \E id \in DOMAIN instances :
        /\ Live(id)
        /\ renderers[instances[id].renderer].resume_calls
        /\ renderers[instances[id].renderer].handled # <<>>

\* the mounted BevyComponents whose hook holds id
MountedWith(id) == {c \in DOMAIN mounted : mounted[c].instance_id = id}

\* C19: every mount is one get_or_create that returns, every unmount is one
\* release of the identity the hook has held since the mount, and no other
\* step calls either; so the count of every slot is the number of mounted
\* BevyComponents of its identity, an identity without slot has none, and
\* every mounted component holds the handle of its slot.
C19_RefCountIsMountedComponents ==
    /\ [](~torn_down =>
            \A id \in Ids :
              IF id \in DOMAIN instances
              THEN /\ instances[id].ref_count = Cardinality(MountedWith(id))
                   /\ \A c \in MountedWith(id) :
                         mounted[c].paint_source_id
                           = instances[id].paint_source_id
              ELSE MountedWith(id) = {})
    /\ [][/\ \A c \in Components :
              /\ (c \notin DOMAIN mounted /\ c \in DOMAIN mounted')
                   => /\ creates' = [creates EXCEPT
                                       ![mounted'[c].instance_id] = @ + 1]
                      /\ releases' = releases
              /\ (c \in DOMAIN mounted /\ c \notin DOMAIN mounted')
                   => /\ releases' = [releases EXCEPT
                                        ![mounted[c].instance_id] = @ + 1]
                      /\ creates' = creates
              /\ (c \in DOMAIN mounted /\ c \in DOMAIN mounted')
                   => mounted'[c] = mounted[c]
          /\ (creates' # creates \/ releases' # releases)
               => DOMAIN mounted' # DOMAIN mounted]_vars

\* C19 witness: two components of one identity and one of the other are
\* mounted after an unmount, and the renderer of the shared slot is built
C19_Witness ==
    \E a, b \in DOMAIN instances :
        /\ a # b /\ Live(a)
        /\ Cardinality(MountedWith(a)) = 2 /\ instances[a].ref_count = 2
        /\ Cardinality(MountedWith(b)) = 1 /\ instances[b].ref_count = 1
        /\ TotalOf(releases) > 0

\* get_or_create and release calls on id that have done their write and have
\* not returned yet
AppliedCreates(id) ==
    Cardinality({t \in Threads : /\ pc[t].stage = "ret"
                                 /\ pc[t].op = "get_or_create"
                                 /\ pc[t].id = id})

AppliedReleases(id) ==
    Cardinality({t \in Threads : /\ pc[t].stage = "ret"
                                 /\ pc[t].op = "release"
                                 /\ pc[t].id = id
                                 /\ id \in DOMAIN instances})

\* the threads whose last call was a get_or_create on id that began while id
\* had no slot, and returned
Creators(id) ==
    {t \in Threads : /\ pc[t].stage = "returned"
                     /\ pc[t].op = "get_or_create" /\ pc[t].id = id}

\* C14: with get_or_create, release and paint calls running in different
\* threads, no increment or decrement is lost: while no release found a count
\* of 0, the count of a slot is the get_or_create calls that returned or
\* have written minus the release calls that returned or have written.
\* Every identity has at most one paint source and one handle, which every
\* caller gets (while the registry exists); two get_or_create calls that both began while the identity
\* had no slot leave one slot with one paint source and, when nothing else
\* was called on the identity, a count of 2.
C14_CountingIsRaceFree ==
    \A id \in Ids :
        /\ Cardinality(SourcesOf(id)) <= 1
        /\ Cardinality(returned[id]) <= 1
        /\ (id \in DOMAIN instances /\ id \notin over_released)
             => instances[id].ref_count
                  = creates[id] + AppliedCreates(id)
                      - releases[id] - AppliedReleases(id)
        /\ \A t \in Creators(id) :
              torn_down \/
              /\ id \in DOMAIN instances
              /\ pc[t].handle = instances[id].paint_source_id
              /\ SourcesOf(id) = {pc[t].handle}
        /\ \A t, u \in Creators(id) :
              (/\ t # u /\ pc[t].began_absent /\ pc[u].began_absent
               /\ ~torn_down
               /\ creates[id] = 2 /\ releases[id] = 0
               /\ AppliedCreates(id) = 0 /\ AppliedReleases(id) = 0)
                => /\ instances[id].ref_count = 2
                   /\ pc[t].handle = pc[u].handle

\* C14 witness: both UI threads called get_or_create while the identity had
\* no slot, both have returned, and the paint thread has built the renderer
C14_Witness ==
    \E id \in DOMAIN instances :
        /\ Creators(id) = UiThreads
        /\ \A t \in UiThreads : pc[t].began_absent
        /\ instances[id].ref_count = 2
        /\ Live(id)

\* C15: a thread is between lock().unwrap() and its return only while it
\* holds the Mutex, so at most one call is in its body; every step that
\* changes a slot, the paint sources or a renderer (count mutation, factory
\* call, renderer resume/suspend/render, handle_message) is a step of the
\* thread that holds the Mutex, and no other thread moves in that step.
C15_EverythingUnderTheLock ==
    /\ [](/\ \A t \in Threads : pc[t].stage \in BodyStages <=> lock = t
          /\ Cardinality({t \in Threads : pc[t].stage \in BodyStages}) <= 1)
    /\ [][(instances' # instances \/ sources' # sources
             \/ renderers' # renderers \/ factory_calls' # factory_calls)
            => \/ torn_down'
               \/ /\ lock \in Threads
                  /\ pc[lock].stage \in BodyStages
                  /\ pc'[lock] # pc[lock]
                  /\ \A u \in Threads \ {lock} : pc'[u] = pc[u]]_vars

\* C15 witness: the paint thread is inside render on a built renderer, and
\* a UI thread waits in lock()
C15_Witness ==
    /\ lock \in PaintThreads
    /\ pc[lock].stage = "ret" /\ pc[lock].op = "render"
    /\ Live(pc[lock].id)
    /\ \E t \in UiThreads : pc[t].stage = "lock"

\* C16 (as claimed): a UI thread that sends a signal update never takes the
\* registry Mutex, and never waits in lock() while a paint call holds it.
C16_SendTakesNoLock ==
    \A t \in UiThreads :
        pc[t].op = "send_message"
          => /\ lock # t
             /\ ~(pc[t].stage = "lock" /\ lock \in PaintThreads)

\* C21: a paint-adapter resume that gets the lock, on an existing slot: with
\* no renderer and the factory still held, the factory is taken and called
\* once and, when it returns, its result is installed in the slot and gets
\* exactly one resume call; with a renderer present, that renderer gets
\* exactly one resume call and the factory, the slot and the other renderers
\* stay as they were; with no renderer and no factory, nothing changes.
C21_ResumeConstructsOrForwards ==
    [][\A h \in DOMAIN sources :
         LET id == sources[h].instance_id IN
         (id \in DOMAIN instances /\ Resume(h))
           => LET inst == instances[id] IN
              IF inst.renderer = None /\ sources[h].factory # None
              THEN (~poisoned /\ ~poisoned')
                     => LET rid == Len(renderers) + 1 IN
                        /\ sources' = [sources EXCEPT ![h].factory = None]
                        /\ factory_calls' =
                              [factory_calls EXCEPT ![id] = @ + 1]
                        /\ instances' = [instances EXCEPT ![id].renderer = rid]
                        /\ DOMAIN renderers' = 1..rid
                        /\ \A old \in DOMAIN renderers :
                              renderers'[old] = renderers[old]
                        /\ renderers'[rid].slot = id
                        /\ renderers'[rid].factory = sources[h].factory
                        /\ renderers'[rid].resume_count = 1
                        /\ renderers'[rid].suspend_count = 0
                        /\ renderers'[rid].handled = <<>>
              ELSE IF inst.renderer # None
              THEN ~poisoned
                     => /\ sources' = sources
                        /\ factory_calls' = factory_calls
                        /\ instances' = instances
                        /\ renderers' =
                              [renderers EXCEPT
                                 ![inst.renderer].resume_count = @ + 1]
              ELSE UNCHANGED <<instances, sources, renderers,
                               factory_calls>>]_vars

\* C21 witness: one renderer was built by a resume and resumed again by the
\* next, and the factory of another slot was consumed without leaving a
\* renderer
C21_Witness ==
    \E a, b \in DOMAIN instances :
        /\ Live(a)
        /\ renderers[instances[a].renderer].resume_count = 2
        /\ factory_calls[a] = 1
        /\ \A h \in SourcesOf(a) : sources[h].factory = None
        /\ FactoryFailed(b)
        /\ \A h \in SourcesOf(b) : sources[h].factory = None

\* C22: a paint-adapter suspend that gets the lock calls the suspend of the
\* slot's renderer exactly once when the slot has one and nothing otherwise,
\* and leaves every slot (count, renderer, handle), every adapter with its
\* factory, the factory calls and the other renderers as they were.
C22_SuspendForwardsOnly ==
    [][\A h \in DOMAIN sources :
         (~LockUnwrapPanics /\ Suspend(h))
           => LET id == sources[h].instance_id IN
              /\ instances' = instances
              /\ sources' = sources
              /\ factory_calls' = factory_calls
              /\ renderers' =
                    IF Live(id)
                    THEN [renderers EXCEPT
                            ![instances[id].renderer].suspend_count = @ + 1]
                    ELSE renderers]_vars

\* C22 witness: a renderer was suspended twice and resumed once, its slot
\* still counted, while another slot has no renderer and its adapter still
\* holds the factory
C22_Witness ==
    \E a, b \in DOMAIN instances :
        /\ Live(a)
        /\ renderers[instances[a].renderer].suspend_count = 2
        /\ renderers[instances[a].renderer].resume_count = 1
        /\ instances[a].ref_count = 1
        /\ instances[b].renderer = None
        /\ \A h \in SourcesOf(b) : sources[h].factory # None

\* C23: a send of a signal update is never made to wait, however many
\* updates are queued: while the registry can be locked the send can always
\* take its step, and it appends the update behind the queued ones; when the
\* app's receiver is gone, handle_message discards the error of the send and
\* returns, queueing nothing, changing nothing else and poisoning nothing.
C23_SendNeverBlocks ==
    /\ [](\A id \in Ids :
            (~torn_down /\ ~LockUnwrapPanics /\ Calls < cfg.max_calls)
              => ENABLED (SendMessage(id, "SignalUpdate")))
    /\ [][\A id \in Ids :
            (~LockUnwrapPanics /\ Live(id) /\ SendMessage(id, "SignalUpdate"))
              => LET rid == instances[id].renderer
                     r == renderers[rid]
                     msg == [serial |-> sent', kind |-> "SignalUpdate"]
                 IN /\ ~LockUnwrapPanics'
                    /\ instances' = instances /\ sources' = sources
                    /\ \A other \in DOMAIN renderers \ {rid} :
                          renderers'[other] = renderers[other]
                    /\ renderers'[rid] =
                          IF r.receiver_gone
                          THEN [r EXCEPT !.handled = Append(@, msg),
                                         !.send_errors = @ + 1]
                          ELSE [r EXCEPT !.handled = Append(@, msg),
                                         !.channel = Append(@, msg)]]_vars

\* C23 witness: two updates are queued behind a drained one on one channel,
\* and the renderer of the other identity has discarded the error of a send
\* made after its receiver was dropped
C23_Witness ==
    \E a, b \in DOMAIN instances :
        /\ Live(a) /\ Live(b)
        /\ Len(renderers[instances[a].renderer].channel) >= 2
        /\ renderers[instances[b].renderer].receiver_gone
        /\ renderers[instances[b].renderer].send_errors >= 1
        /\ renderers[instances[b].renderer].channel = <<>>

\* C24: handle_message of BevyAppRenderer, given a payload that is not a
\* SignalUpdate, returns without queueing anything and without changing the
\* renderer, the slot or the registry; given a SignalUpdate it appends exactly
\* one copy to the channel and changes nothing else.
C24_UnknownPayloadIsIgnored ==
    [][sent' = sent \/
       \A id \in Ids, kind \in PayloadKinds :
         (Live(id) /\ SendMessage(id, kind))
           => LET rid == instances[id].renderer
                  msg == [serial |-> sent', kind |-> kind]
                  \* the record of the call, which is not state of the program
                  given == [renderers[rid] EXCEPT !.handled = Append(@, msg)]
              IN /\ ~LockUnwrapPanics'
                 /\ instances' = instances /\ sources' = sources
                 /\ renderers' =
                       [renderers EXCEPT ![rid] =
                          IF kind = "SignalUpdate"
                          THEN [given EXCEPT !.channel = Append(@, msg)]
                          ELSE given]]_vars

\* C24 witness: a renderer was handed a payload of another type, a
\* SignalUpdate and a payload of another type again, and only the
\* SignalUpdate is on its channel
C24_Witness ==
    \E rid \in DOMAIN renderers :
        LET r == renderers[rid] IN
        /\ Len(r.handled) = 3
        /\ r.handled[1].kind = "Other"
        /\ r.handled[2].kind = "SignalUpdate"
        /\ r.handled[3].kind = "Other"
        /\ r.channel = <<r.handled[2]>>
        /\ r.received = <<>>

\* C25: try_recv never waits, so a drain in progress can always take its
\* next turn; a turn that finds an update takes exactly the head of the
\* channel, a turn that finds the channel empty ends the drain at once and
\* changes nothing; the receiver has, in order, what it had, what was queued
\* when the drain began and what was sent since, so when the drain ends the
\* channel is empty and, with no send during the drain, exactly the updates
\* queued at its start were taken; and every drain ends.
C25_DrainTakesAllQueued ==
    /\ [](\A t \in PaintThreads :
            pc[t].stage = "drain"
              => LET r == renderers[pc[t].rid] IN
                 /\ ENABLED TryRecv(t)
                 /\ r.received \o r.channel
                      = pc[t].before \o pc[t].start \o pc[t].late
                 /\ Len(r.received) = Len(pc[t].before) + pc[t].pops)
    /\ [][\A t \in PaintThreads :
            (pc[t].stage = "drain" /\ TryRecv(t))
              => LET rid == pc[t].rid
                     r == renderers[rid]
                 IN IF r.channel = <<>>
                    THEN /\ pc'[t].stage # "drain"
                         /\ renderers' = renderers
                         /\ r.received
                              = pc[t].before \o pc[t].start \o pc[t].late
                         /\ pc[t].late = <<>> => pc[t].pops = Len(pc[t].start)
                    ELSE /\ pc'[t].stage = "drain"
                         /\ renderers'[rid].channel = Tail(r.channel)
                         /\ renderers'[rid].received
                              = Append(r.received, Head(r.channel))]_vars
    /\ [][\A t \in PaintThreads :
            (pc[t].stage = "drain" /\ pc'[t].stage # "drain")
              => renderers'[pc[t].rid].channel = <<>>]_vars
    /\ \A t \in PaintThreads :
          (pc[t].stage = "drain") ~> (pc[t].stage # "drain")

\* C25 witness: a drain that began with two updates queued behind one taken
\* by an earlier frame has taken both, nothing was sent meanwhile, and its
\* next try_recv finds the channel empty
C25_Witness ==
    \E t \in PaintThreads :
        /\ pc[t].stage = "drain"
        /\ Len(pc[t].before) = 1 /\ Len(pc[t].start) = 2
        /\ pc[t].late = <<>> /\ pc[t].pops = 2
        /\ renderers[pc[t].rid].channel = <<>>

\* C26: every update handed to a renderer, queued on its channel or taken by
\* its drain has the variant of the type of the value send_signal_update was
\* called with (bool: Bool, f32: F32, f64: F64, i32: I32, u32: U32,
\* String: String) and the key and the value of that call; the drain and
\* the channel together hold exactly the updates the renderer was handed, in
\* that order, and an update sent before the renderer was built is in none.
C26_UpdateArrivesAsSent ==
    LET variant(type) ==
            CASE type = "bool" -> "Bool" [] type = "f32" -> "F32"
              [] type = "f64" -> "F64" [] type = "i32" -> "I32"
              [] type = "u32" -> "U32" [] type = "String" -> "String"
        as_sent(msg) ==
            /\ msg.kind = "SignalUpdate"
            /\ msg.update.variant = variant(msg.arg[1])
            /\ msg.update.key = msg.arg[2]
            /\ msg.update.value = msg.arg[3]
    IN \A rid \in DOMAIN renderers :
          LET r == renderers[rid] IN
          /\ r.received \o r.channel = r.handled
          /\ \A i \in DOMAIN r.handled : as_sent(r.handled[i])
          /\ \A d \in dropped_msgs, i \in DOMAIN r.handled :
                r.handled[i].serial # d.serial

\* C26 witness: an f32 2.5 sent under key "speed" before the resume was
\* dropped; sent again after the resume it has been taken by the drain as
\* F32("speed", 2.5)
C26_Witness ==
    \E rid \in DOMAIN renderers :
        LET r == renderers[rid] IN
        /\ r.received # <<>>
        /\ r.received[1].arg = <<"f32", "speed", "2.5">>
        /\ r.received[1].update = SignalUpdate("F32", "speed", "2.5")
        /\ \E d \in dropped_msgs :
              d.id = r.slot /\ d.serial < r.received[1].serial

\* C27: a renderer that has registered no texture yet has no texture handle,
\* and a render of it that gets through the adapter returns a handle exactly
\* when width and height are not zero and the app has its one camera;
\* otherwise it returns nothing, registers nothing and does not panic.
C27_NothingUntilSized ==
    /\ [](\A rid \in DOMAIN renderers :
            renderers[rid].registered = 0
              => /\ renderers[rid].texture_handle = None
                 /\ renderers[rid].host_textures = {}
                 /\ renderers[rid].last_texture_size = <<0, 0>>)
    /\ [][\A h \in DOMAIN sources :
            LET id == sources[h].instance_id IN
            (Live(id) /\ renderers[instances[id].renderer].registered = 0)
              => \A size \in cfg.sizes :
                   (~LockUnwrapPanics /\ Render(h, size[1], size[2]))
                     => LET r == renderers[instances[id].renderer]
                            after == renderers'[instances[id].renderer]
                        IN /\ ~LockUnwrapPanics'
                           /\ IF size[1] # 0 /\ size[2] # 0 /\ r.cameras = 1
                              THEN /\ painted' # None
                                   /\ after.registered = 1
                                   /\ after.last_texture_size = size
                              ELSE /\ painted' = None
                                   /\ after.registered = 0]_vars

\* C27 witness: an app with several cameras was rendered at a size that is
\* not zero, got its texture view and registered no texture, and the render
\* returned nothing
C27_Witness ==
    \E rid \in DOMAIN renderers :
        /\ renderers[rid].cameras = 2
        /\ renderers[rid].view_inserted
        /\ renderers[rid].registered = 0
        /\ renderers[rid].texture_handle = None
        /\ painted = None

C29_SlotHasHandle ==
    /\ [](\A id \in DOMAIN instances : instances[id].paint_source_id # None)
    /\ [][\A id \in DOMAIN instances :
            (/\ ~poisoned
             /\ id \in DOMAIN instances'
             /\ instances'[id].ref_count # instances[id].ref_count
             /\ instances'[id].ref_count = RefInc(instances[id].ref_count))
            => /\ ~poisoned'
               /\ instances[id].paint_source_id \in returned'[id]]_vars

\* C29 witness: a slot whose count went to zero and up again, and whose
\* renderer is built, still has the one handle every call returned
C29_Witness ==
    \E id \in DOMAIN instances :
       /\ ~poisoned
       /\ creates[id] = 2 /\ releases[id] = 1
       /\ instances[id].ref_count = 1
       /\ instances[id].renderer # None
       /\ instances[id].paint_source_id # None
       /\ returned[id] = {instances[id].paint_source_id}

C32_DrainDiscardsUnmatched ==
    /\ [](\A rid \in DOMAIN renderers :
            LET r == renderers[rid]
                first(m) == m.arg[1] = "f32" /\ m.arg[2] = "speed"
            IN
            /\ \A i \in DOMAIN r.applied : r.applied[i].system = 1
            /\ \A i \in DOMAIN r.received, j \in DOMAIN r.channel :
                  r.received[i].serial # r.channel[j].serial
            /\ \A i \in DOMAIN r.received :
                  first(r.received[i])
                    <=> \E j \in DOMAIN r.applied :
                           r.applied[j].serial = r.received[i].serial
            /\ \A i, j \in DOMAIN r.applied :
                  r.applied[i].serial = r.applied[j].serial => i = j)
    /\ [][\A h \in DOMAIN sources, size \in cfg.sizes :
            LET id == sources[h].instance_id IN
            (~LockUnwrapPanics /\ Live(id) /\ Render(h, size[1], size[2]))
              => LET rid == instances[id].renderer
                     first(m) == m.arg[1] = "f32" /\ m.arg[2] = "speed"
                 IN
                 /\ renderers'[rid].channel = <<>>
                 /\ renderers'[rid].received
                      = renderers[rid].received \o renderers[rid].channel
                 /\ Len(renderers'[rid].applied)
                      = Len(renderers[rid].applied)
                        + Cardinality({i \in DOMAIN renderers[rid].channel :
                                         first(renderers[rid].channel[i])})]_vars

\* C32 witness: an I32 update under "color_index", the key of the second
\* system's arm, and an F32 update under "speed" were queued; one frame
\* popped both, the first system ran its action for the F32 one, and the
\* I32 one is gone
C32_Witness ==
    \E rid \in DOMAIN renderers :
       LET r == renderers[rid] IN
       /\ r.channel = <<>>
       /\ Len(r.received) = 2 /\ Len(r.applied) = 1
       /\ r.received[1].update = SignalUpdate("I32", "color_index", "7")
       /\ r.received[2].update = SignalUpdate("F32", "speed", "2.5")
       /\ r.applied[1] = [system |-> 1, serial |-> r.received[2].serial]

\* C33: a renderer never has more than one texture registered with the host,
\* not even inside a render, and the registered texture is the one its
\* handle names.  A render of a renderer that has a texture: with zero width
\* or height, or with the size the texture was made for, it registers and
\* unregisters nothing and returns the same handle; with another size that
\* is not zero, the old texture is unregistered and one new texture is
\* registered, whose handle the render returns.
C33_OneTextureAtATime ==
    /\ [](\A rid \in DOMAIN renderers :
            LET r == renderers[rid] IN
            /\ Cardinality(r.host_textures) <= 1
            /\ r.peak_textures <= 1
            /\ r.host_textures
                 = IF r.texture_handle = None THEN {} ELSE {r.texture_handle})
    /\ [][\A h \in DOMAIN sources, size \in cfg.sizes :
            LET id == sources[h].instance_id IN
            (~LockUnwrapPanics /\ Live(id) /\ Render(h, size[1], size[2]))
              => LET rid == instances[id].renderer
                     r == renderers[rid]
                     after == renderers'[rid]
                 IN
                 IF size[1] = 0 \/ size[2] = 0
                    \/ (r.texture_handle # None /\ r.last_texture_size = size)
                 THEN /\ after.texture_handle = r.texture_handle
                      /\ after.host_textures = r.host_textures
                      /\ after.registered = r.registered
                      /\ after.last_texture_size = r.last_texture_size
                      /\ after.manual_texture_view_handle
                           = r.manual_texture_view_handle
                      /\ after.view_inserted = r.view_inserted
                      /\ painted' = r.texture_handle
                 ELSE r.texture_handle # None
                        => /\ after.registered = r.registered + 1
                           /\ after.texture_handle = after.registered
                           /\ after.host_textures = {after.texture_handle}
                           /\ r.texture_handle \notin after.host_textures
                           /\ after.last_texture_size = size
                           /\ painted' = after.texture_handle]_vars

\* C33 witness: a renderer was sized twice, at two sizes that are not zero:
\* its second texture is the only one registered, and the last render
\* returned its handle
C33_Witness ==
    \E rid \in DOMAIN renderers :
       LET r == renderers[rid] IN
       /\ r.registered = 2
       /\ r.texture_handle = 2
       /\ r.host_textures = {2}
       /\ r.peak_textures = 1
       /\ painted = 2

====
